---- MODULE Spec2Model ----
(***************************************************************************)
(* Model of the road layer of the webcity procedural generator:            *)
(*   - RoadNetwork / SpatialGrid / RoadGenerator.paintRoad (the road graph)*)
(*   - IntersectionHandler (the welder) and the worker's paint-road path   *)
(* Coordinates are integers (metres).  Distances are compared through      *)
(* their squares, angles through the sign and square of the dot product.   *)
(***************************************************************************)
EXTENDS Integers, Sequences, FiniteSets, TLC

VARIABLES network, last, handler, reply, blockManager, rng, buildingManager,
          inbox, received, outbox, first

vars == <<network, last, handler, reply, blockManager, rng, buildingManager,
         inbox, received, outbox, first>>

NULL == -1

\* no earlier run of the worker is on record
NoRun == [null |-> TRUE]

(***************************************************************************)
(* Bounds of the exploration                                               *)
(***************************************************************************)
MaxNodes == 3
MaxEdges == 2

\* Positions handed to addNode / paintRoad.  (40,0) and (60,0) lie in
\* different grid cells, (52,0) is within 15 m of both; (50,100) sees the
\* two under an angle of about 11 degrees.
NetPoints == {<<40, 0>>, <<52, 0>>, <<60, 0>>, <<50, 100>>}

\* paint-road requests are accepted while fewer segments are stored
MaxSegments == 2

\* the block finder is run on cycles of 3 .. MaxCycle nodes
MaxCycle == 4

\* the road graphs whose traversal is followed turn by turn are made by up
\* to MaxWalkEdges calls of addEdge
MaxWalkEdges == 3

\* Corners of a convex polygon; the first k of them (k >= 3) are the nodes
\* of a cycle whose corners are all 45 degrees or more and which encloses
\* 800, 1600 and 2000 square metres for k = 3, 4, 5.
CyclePoints == <<<<0, 0>>, <<40, 0>>, <<40, 40>>, <<0, 40>>, <<-20, 20>>>>

\* End points of painted segments: a cross (0,0)-(40,0) x (20,-20)-(20,20),
\* a start 8 m below the crossing, two points 1 m off the ends of the
\* horizontal road, and one 8 m above its start.
WeldPoints == {<<0, 0>>, <<40, 0>>, <<20, -20>>, <<20, 20>>,
               <<20, -8>>, <<0, -1>>, <<40, 1>>, <<0, 8>>}

\* the number of requests a run of the worker serves
MaxRequests == 4

\* positions of the spawn events: inside the first parcel of the 60 m
\* square, 7 m off the centroid of the 8 m by 10 m parcel, and far from both
BuildPositions == {<<10, 10>>, <<104, 12>>, <<500, 500>>}
BuildLevels == {1, 2}

\* painted zones: a 60 m square, an 8 m by 10 m rectangle away from it, and
\* a polygon of two corners
ZonePolygons ==
  {<<<<0, 0>>, <<60, 0>>, <<60, 60>>, <<0, 60>>>>,
   <<<<100, 0>>, <<108, 0>>, <<108, 10>>, <<100, 10>>>>,
   <<<<0, 0>>, <<60, 0>>>>}
ZoneDensities == {"low"}
\* a field the message leaves out (or leaves empty) is ""
Missing == ""
ZoneMethods == {Missing, "voronoi"}
Seeds == {1, 2}

PaintClasses == {"street", "avenue"}
DefaultClass == "street"

NodeIds == 0 .. (MaxNodes - 1)
EdgeIds == 0 .. (MaxEdges - 1)

(***************************************************************************)
(* Program constants                                                       *)
(***************************************************************************)
SNAP_THRESHOLD == 15
cellSize == 50

(***************************************************************************)
(* Geometry helpers                                                        *)
(***************************************************************************)
\* squared Euclidean distance; distance(a,b) < d  <=>  Dist2(a,b) < d*d
Dist2(a, b) == (b[1] - a[1]) * (b[1] - a[1]) + (b[2] - a[2]) * (b[2] - a[2])

\* Math.atan2(b.y - a.y, b.x - a.x) as a direction vector; atan2(0,0) = 0 is
\* the direction of the positive x axis
angle(a, b) ==
  IF a = b THEN <<1, 0>> ELSE <<b[1] - a[1], b[2] - a[2]>>

\* angleDifference(a1, a2) < 30 degrees, for directions u and v:
\* cos > sqrt(3)/2  <=>  u.v > 0 and 4 (u.v)^2 > 3 |u|^2 |v|^2
angleDifferenceBelowMin(u, v) ==
  LET dot == u[1] * v[1] + u[2] * v[2]
      uu  == u[1] * u[1] + u[2] * u[2]
      vv  == v[1] * v[1] + v[2] * v[2]
  IN  dot > 0 /\ 4 * dot * dot > 3 * uu * vv

(***************************************************************************)
(* Sequence helpers (Array.indexOf / splice)                               *)
(***************************************************************************)
IndexOf(s, x) ==
  IF \E i \in 1 .. Len(s) : s[i] = x
    THEN CHOOSE i \in 1 .. Len(s) : s[i] = x /\ \A j \in 1 .. (i - 1) : s[j] # x
    ELSE 0

RemoveAt(s, i) == [j \in 1 .. (Len(s) - 1) |-> IF j < i THEN s[j] ELSE s[j + 1]]

\* indexOf + splice(index, 1): drop the first occurrence, if any
SpliceFirst(s, x) == IF IndexOf(s, x) = 0 THEN s ELSE RemoveAt(s, IndexOf(s, x))

\* a map without one key
MapDelete(f, k) == [x \in (DOMAIN f) \ {k} |-> f[x]]

(***************************************************************************)
(* SpatialGrid                                                             *)
(***************************************************************************)
getKey(x, y) == <<x \div cellSize, y \div cellSize>>

GridInsert(grid, nodeId, x, y) ==
  LET key == getKey(x, y)
  IN  IF key \in DOMAIN grid
        THEN [grid EXCEPT ![key] = Append(@, nodeId)]
        ELSE grid @@ (key :> <<nodeId>>)

GridRemove(grid, nodeId, x, y) ==
  LET key == getKey(x, y)
  IN  IF key \notin DOMAIN grid THEN grid
      ELSE IF IndexOf(grid[key], nodeId) = 0 THEN grid
      ELSE IF Len(grid[key]) = 1 THEN MapDelete(grid, key)
      ELSE [grid EXCEPT ![key] = SpliceFirst(@, nodeId)]

\* Math.ceil(radius / cellSize)
cellRadiusOf(radius) == (radius + cellSize - 1) \div cellSize

RECURSIVE CollectCells(_, _, _, _, _)
\* the double loop dx, dy = -cellRadius .. cellRadius, dx outermost
CollectCells(grid, cx, cy, cr, k) ==
  LET side == 2 * cr + 1
      dx   == (k \div side) - cr
      dy   == (k % side) - cr
      key  == <<cx + dx, cy + dy>>
      here == IF key \in DOMAIN grid THEN grid[key] ELSE <<>>
  IN  IF k >= side * side THEN <<>>
      ELSE here \o CollectCells(grid, cx, cy, cr, k + 1)

getNearbyOwnCell(grid, x, y, radius) ==
  CollectCells(grid, x \div cellSize, y \div cellSize, 0, 0)

getNearby(grid, x, y, radius) ==
  CollectCells(grid, x \div cellSize, y \div cellSize, cellRadiusOf(radius), 0)

(***************************************************************************)
(* RoadNetwork.  A network is a record                                     *)
(*   nodes        : id -> [pos, edges (array of edge ids), isIntersection] *)
(*   edges        : id -> [nodeA, nodeB]                                   *)
(*   spatialIndex : cell key -> array of node ids                          *)
(*   nextNodeId, nextEdgeId                                                *)
(* Every method returns [net |-> network after the call, result |-> value] *)
(***************************************************************************)
EmptyMap == [x \in {} |-> 0]

NewRoadNetwork ==
  [nodes |-> EmptyMap, edges |-> EmptyMap, spatialIndex |-> EmptyMap,
   nextNodeId |-> 0, nextEdgeId |-> 0]

addNode(net, x, y) ==
  LET nearby == getNearby(net.spatialIndex, x, y, SNAP_THRESHOLD)
      Hit(i) == /\ nearby[i] \in DOMAIN net.nodes
                /\ Dist2(net.nodes[nearby[i]].pos, <<x, y>>)
                     < SNAP_THRESHOLD * SNAP_THRESHOLD
      id == net.nextNodeId
  IN  IF \E i \in 1 .. Len(nearby) : Hit(i)
        THEN [net |-> net,
              result |-> nearby[CHOOSE i \in 1 .. Len(nearby) :
                                  Hit(i) /\ \A j \in 1 .. (i - 1) : ~Hit(j)]]
        ELSE [net |-> [net EXCEPT
                 !.nextNodeId = id + 1,
                 !.nodes = @ @@ (id :> [pos |-> <<x, y>>, edges |-> <<>>,
                                        isIntersection |-> FALSE]),
                 !.spatialIndex = GridInsert(@, id, x, y)],
              result |-> id]

checkMinimumAngle(net, nodeId, newNodeId) ==
  IF nodeId \notin DOMAIN net.nodes \/ newNodeId \notin DOMAIN net.nodes
    THEN FALSE
    ELSE
      LET node     == net.nodes[nodeId]
          newAngle == angle(node.pos, net.nodes[newNodeId].pos)
          TooSharp(edgeId) ==
            /\ edgeId \in DOMAIN net.edges
            /\ LET edge    == net.edges[edgeId]
                   otherId == IF edge.nodeA = nodeId THEN edge.nodeB ELSE edge.nodeA
               IN  /\ otherId \in DOMAIN net.nodes
                   /\ angleDifferenceBelowMin(newAngle,
                        angle(node.pos, net.nodes[otherId].pos))
      IN  \A i \in 1 .. Len(node.edges) : ~TooSharp(node.edges[i])

\* addEdge with the duplicate test made against edge.nodeB only
addEdgeOneWay(net, nodeAId, nodeBId) ==
  IF nodeAId \notin DOMAIN net.nodes \/ nodeBId \notin DOMAIN net.nodes
    THEN [net |-> net, result |-> NULL]
    ELSE
      LET nodeA == net.nodes[nodeAId]
          Dup(i) == /\ nodeA.edges[i] \in DOMAIN net.edges
                    /\ net.edges[nodeA.edges[i]].nodeB = nodeBId
          id == net.nextEdgeId
          pushed == [net.nodes EXCEPT ![nodeAId].edges = Append(@, id)]
          pushed2 == [pushed EXCEPT ![nodeBId].edges = Append(@, id)]
          flagA == IF Len(pushed2[nodeAId].edges) > 1
                     THEN [pushed2 EXCEPT ![nodeAId].isIntersection = TRUE]
                     ELSE pushed2
          flagB == IF Len(flagA[nodeBId].edges) > 1
                     THEN [flagA EXCEPT ![nodeBId].isIntersection = TRUE]
                     ELSE flagA
      IN  IF \E i \in 1 .. Len(nodeA.edges) : Dup(i)
            THEN [net |-> net,
                  result |-> nodeA.edges[CHOOSE i \in 1 .. Len(nodeA.edges) :
                                Dup(i) /\ \A j \in 1 .. (i - 1) : ~Dup(j)]]
          ELSE IF ~checkMinimumAngle(net, nodeAId, nodeBId)
            THEN [net |-> net, result |-> NULL]
          ELSE [net |-> [net EXCEPT
                   !.nextEdgeId = id + 1,
                   !.edges = @ @@ (id :> [nodeA |-> nodeAId, nodeB |-> nodeBId]),
                   !.nodes = flagB],
                result |-> id]

addEdge(net, nodeAId, nodeBId) ==
  IF nodeAId \notin DOMAIN net.nodes \/ nodeBId \notin DOMAIN net.nodes
    THEN [net |-> net, result |-> NULL]
    ELSE
      LET nodeA == net.nodes[nodeAId]
          Dup(i) == /\ nodeA.edges[i] \in DOMAIN net.edges
                    /\ \/ net.edges[nodeA.edges[i]].nodeB = nodeBId
                       \/ net.edges[nodeA.edges[i]].nodeA = nodeBId
          id == net.nextEdgeId
          \* nodeA.edges.push(id); nodeB.edges.push(id); then the two flags
          pushed == [net.nodes EXCEPT ![nodeAId].edges = Append(@, id)]
          pushed2 == [pushed EXCEPT ![nodeBId].edges = Append(@, id)]
          flagA == IF Len(pushed2[nodeAId].edges) > 1
                     THEN [pushed2 EXCEPT ![nodeAId].isIntersection = TRUE]
                     ELSE pushed2
          flagB == IF Len(flagA[nodeBId].edges) > 1
                     THEN [flagA EXCEPT ![nodeBId].isIntersection = TRUE]
                     ELSE flagA
      IN  IF \E i \in 1 .. Len(nodeA.edges) : Dup(i)
            THEN [net |-> net,
                  result |-> nodeA.edges[CHOOSE i \in 1 .. Len(nodeA.edges) :
                                Dup(i) /\ \A j \in 1 .. (i - 1) : ~Dup(j)]]
          ELSE IF ~checkMinimumAngle(net, nodeAId, nodeBId)
            THEN [net |-> net, result |-> NULL]
          ELSE [net |-> [net EXCEPT
                   !.nextEdgeId = id + 1,
                   !.edges = @ @@ (id :> [nodeA |-> nodeAId, nodeB |-> nodeBId]),
                   !.nodes = flagB],
                result |-> id]

\* one "if (node) { indexOf; splice; flag }" block of removeEdge
Detach(nodes, nodeId, edgeId) ==
  IF nodeId \notin DOMAIN nodes THEN nodes
  ELSE LET spliced == [nodes EXCEPT ![nodeId].edges = SpliceFirst(@, edgeId)]
       IN  IF Len(spliced[nodeId].edges) <= 1
             THEN [spliced EXCEPT ![nodeId].isIntersection = FALSE]
             ELSE spliced

removeEdge(net, edgeId) ==
  IF edgeId \notin DOMAIN net.edges THEN net
  ELSE LET edge == net.edges[edgeId]
       IN  [net EXCEPT
             !.nodes = Detach(Detach(@, edge.nodeA, edgeId), edge.nodeB, edgeId),
             !.edges = MapDelete(@, edgeId)]

RECURSIVE RemoveIncident(_, _, _)
\* "for (const edgeId of node.edges) this.removeEdge(edgeId)": the array
\* iterator advances its index over the array removeEdge is splicing
RemoveIncident(net, nodeId, i) ==
  IF i > Len(net.nodes[nodeId].edges) THEN net
  ELSE RemoveIncident(removeEdge(net, net.nodes[nodeId].edges[i]), nodeId, i + 1)

removeNode(net, nodeId) ==
  IF nodeId \notin DOMAIN net.nodes THEN net
  ELSE LET pos == net.nodes[nodeId].pos
           unindexed == [net EXCEPT
                           !.spatialIndex = GridRemove(@, nodeId, pos[1], pos[2])]
           detached == RemoveIncident(unindexed, nodeId, 1)
       IN  [detached EXCEPT !.nodes = MapDelete(@, nodeId)]

\* RoadGenerator.paintRoad
paintRoad(net, start, end) ==
  LET s == addNode(net, start[1], start[2])
      e == addNode(s.net, end[1], end[2])
      r == addEdge(e.net, s.result, e.result)
  IN  [net |-> r.net, result |-> (r.result # NULL),
       startNode |-> s.result, endNode |-> e.result]

(***************************************************************************)
(* IntersectionHandler (the welder).  A handler is a record                *)
(*   segments      : the segment Map in insertion order, entries           *)
(*                   [id, start, end, width, class]                        *)
(*   intersections : the intersection Map in insertion order, entries      *)
(*                   [id, position, connectedSegments, type, radius]       *)
(*   nextSegmentId, nextIntersectionId                                     *)
(* Segment ids are kept in thousandths: the sub-id  id + k * 0.001  of the *)
(* source is  SubId(id, k).  The orientation field of an intersection (a   *)
(* mean of atan2 values) is not represented.                               *)
(***************************************************************************)
HANDLER_SNAP_THRESHOLD == 10
INTERSECTION_THRESHOLD == 2

SubId(id, k) == id + k
WholeId(n) == 1000 * n

NewIntersectionHandler ==
  [segments |-> <<>>, intersections |-> <<>>,
   nextSegmentId |-> 0, nextIntersectionId |-> 0]

Closer(a, b, d) == Dist2(a, b) < d * d
Farther(a, b, d) == Dist2(a, b) > d * d

\* position of the entry with this id in a Map (0: absent)
RECURSIVE KeyIndex(_, _, _)
KeyIndex(map, id, i) ==
  IF i > Len(map) THEN 0
  ELSE IF map[i].id = id THEN i
  ELSE KeyIndex(map, id, i + 1)

\* lineIntersection: the crossing point of segments p1p2 and p3p4, with
\* t = lineT / lineDenom and u = lineU / lineDenom; NoPoint (null) when the
\* lines are parallel or the point is outside either segment
NoPoint == <<>>

lineDenom(p1, p2, p3, p4) ==
  (p1[1] - p2[1]) * (p3[2] - p4[2]) - (p1[2] - p2[2]) * (p3[1] - p4[1])

lineT(p1, p2, p3, p4) ==
  (p1[1] - p3[1]) * (p3[2] - p4[2]) - (p1[2] - p3[2]) * (p3[1] - p4[1])

lineU(p1, p2, p3, p4) ==
  0 - ((p1[1] - p2[1]) * (p1[2] - p3[2]) - (p1[2] - p2[2]) * (p1[1] - p3[1]))

\* 0 <= n / d <= 1
InUnit(n, d) == IF d > 0 THEN 0 <= n /\ n <= d ELSE d <= n /\ n <= 0

Abs(x) == IF x < 0 THEN 0 - x ELSE x
Sgn(x) == IF x < 0 THEN 0 - 1 ELSE 1

lineCrosses(p1, p2, p3, p4) ==
  LET d == lineDenom(p1, p2, p3, p4)
  IN  /\ d # 0
      /\ InUnit(lineT(p1, p2, p3, p4), d)
      /\ InUnit(lineU(p1, p2, p3, p4), d)

\* the crossing point has integer coordinates
lineExact(p1, p2, p3, p4) ==
  LET d == lineDenom(p1, p2, p3, p4)
      t == lineT(p1, p2, p3, p4)
  IN  /\ (Abs(t) * Abs(p2[1] - p1[1])) % Abs(d) = 0
      /\ (Abs(t) * Abs(p2[2] - p1[2])) % Abs(d) = 0

lineIntersection(p1, p2, p3, p4) ==
  LET d == lineDenom(p1, p2, p3, p4)
      t == lineT(p1, p2, p3, p4)
      \* t / d = tt / dd with dd > 0 and tt >= 0
      dd == Abs(d)
      tt == t * Sgn(d)
  IN  IF ~lineCrosses(p1, p2, p3, p4) THEN NoPoint
      ELSE <<p1[1] + (tt * (p2[1] - p1[1])) \div dd,
             p1[2] + (tt * (p2[2] - p1[2])) \div dd>>

RECURSIVE FindFrom(_, _, _)
findIntersections(h, newSegment) == FindFrom(h, newSegment, 1)
FindFrom(h, newSegment, i) ==
  IF i > Len(h.segments) THEN <<>>
  ELSE
    LET segment == h.segments[i]
        x == lineIntersection(newSegment.start, newSegment.end,
                              segment.start, segment.end)
        isMiddleIntersection ==
          /\ x # NoPoint
          /\ Farther(x, newSegment.start, INTERSECTION_THRESHOLD)
          /\ Farther(x, newSegment.end, INTERSECTION_THRESHOLD)
          /\ Farther(x, segment.start, INTERSECTION_THRESHOLD)
          /\ Farther(x, segment.end, INTERSECTION_THRESHOLD)
        rest == FindFrom(h, newSegment, i + 1)
    IN  IF isMiddleIntersection
          THEN <<[point |-> x, segmentId |-> segment.id]>> \o rest
          ELSE rest

\* Array.sort by distance from the start of the segment (stable)
RECURSIVE InsertSorted(_, _, _)
InsertSorted(sorted, x, from) ==
  IF sorted = <<>> THEN <<x>>
  ELSE IF Dist2(from, x.point) < Dist2(from, Head(sorted).point)
    THEN <<x>> \o sorted
  ELSE <<Head(sorted)>> \o InsertSorted(Tail(sorted), x, from)

RECURSIVE SortByDistance(_, _)
SortByDistance(pts, from) ==
  IF pts = <<>> THEN <<>>
  ELSE InsertSorted(SortByDistance(SubSeq(pts, 1, Len(pts) - 1), from),
                    pts[Len(pts)], from)

splitExistingSegment(h, segmentId, point) ==
  LET i == KeyIndex(h.segments, segmentId, 1)
  IN  IF i = 0 THEN h
      ELSE
        LET segment == h.segments[i]
            segment1 == [segment EXCEPT !.end = point]
            segment2 == [segment EXCEPT !.id = WholeId(h.nextSegmentId),
                                         !.start = point]
        IN  IF /\ Farther(point, segment.start, INTERSECTION_THRESHOLD)
               /\ Farther(point, segment.end, INTERSECTION_THRESHOLD)
              THEN [h EXCEPT
                      !.segments = RemoveAt(@, i) \o <<segment1, segment2>>,
                      !.nextSegmentId = @ + 1]
              ELSE h

RECURSIVE SplitLoop(_, _, _, _, _, _)
\* the loop over sortedPoints and the final segment; st.h is the handler,
\* st.segments the sub-segments made so far
SplitLoop(h, segment, sortedPoints, k, currentStart, made) ==
  IF k > Len(sortedPoints)
    THEN [h |-> h,
          segments |-> Append(made,
             [segment EXCEPT !.id = SubId(segment.id, k - 1),
                             !.start = currentStart])]
    ELSE SplitLoop(
           splitExistingSegment(h, sortedPoints[k].segmentId, sortedPoints[k].point),
           segment, sortedPoints, k + 1, sortedPoints[k].point,
           Append(made,
             [segment EXCEPT !.id = SubId(segment.id, k - 1),
                             !.start = currentStart,
                             !.end = sortedPoints[k].point]))

splitSegmentAtPoints(h, segment, intersectionPoints) ==
  IF Len(intersectionPoints) = 0
    THEN [h |-> h, segments |-> <<segment>>]
    ELSE SplitLoop(h, segment, SortByDistance(intersectionPoints, segment.start),
                   1, segment.start, <<>>)

getIntersectionType(connectionCount) ==
  CASE connectionCount = 2 -> "end"
    [] connectionCount = 3 -> "T"
    [] connectionCount = 4 -> "cross"
    [] OTHER -> "complex"

RECURSIVE ConnectedFrom(_, _, _)
\* ids of the segments with an endpoint nearer than the threshold, Map order
ConnectedFrom(segments, point, i) ==
  IF i > Len(segments) THEN <<>>
  ELSE LET rest == ConnectedFrom(segments, point, i + 1)
       IN  IF \/ Closer(point, segments[i].start, INTERSECTION_THRESHOLD)
              \/ Closer(point, segments[i].end, INTERSECTION_THRESHOLD)
             THEN <<segments[i].id>> \o rest
             ELSE rest

\* "maxWidth = segment.width": the width of the last connected segment
LastWidthOf(segments, ids, i) ==
  IF Len(ids) = 0 THEN 0
  ELSE segments[KeyIndex(segments, ids[Len(ids)], 1)].width

RECURSIVE MaxWidthOf(_, _, _)
\* maxWidth = Math.max(maxWidth, segment.width) over the connected segments
MaxWidthOf(segments, ids, i) ==
  IF i > Len(ids) THEN 0
  ELSE LET w == segments[KeyIndex(segments, ids[i], 1)].width
           m == MaxWidthOf(segments, ids, i + 1)
       IN  IF w > m THEN w ELSE m

RECURSIVE ExistingAt(_, _, _)
\* index of the first intersection nearer than the threshold (0: none)
ExistingAt(intersections, point, i) ==
  IF i > Len(intersections) THEN 0
  ELSE IF Closer(intersections[i].position, point, INTERSECTION_THRESHOLD) THEN i
  ELSE ExistingAt(intersections, point, i + 1)

\* createOrUpdateIntersection looking for a record at the very point
createOrUpdateIntersectionAtPoint(h, point) ==
  LET connectedSegments == ConnectedFrom(h.segments, point, 1)
      maxWidth == MaxWidthOf(h.segments, connectedSegments, 1)
      existing == ExistingAt(h.intersections, point, 1)
      same == existing # 0 /\ h.intersections[existing].position = point
      radius == (maxWidth * 3) \div 4
      type == getIntersectionType(Len(connectedSegments))
  IN  IF Len(connectedSegments) < 2 THEN h
      ELSE IF same
        THEN [h EXCEPT !.intersections[existing] =
                [@ EXCEPT !.connectedSegments = connectedSegments,
                          !.type = type, !.radius = radius]]
      ELSE [h EXCEPT
              !.intersections = Append(@,
                 [id |-> h.nextIntersectionId, position |-> point,
                  connectedSegments |-> connectedSegments,
                  type |-> type, radius |-> radius]),
              !.nextIntersectionId = @ + 1]

createOrUpdateIntersection(h, point) ==
  LET connectedSegments == ConnectedFrom(h.segments, point, 1)
      maxWidth == MaxWidthOf(h.segments, connectedSegments, 1)
      existing == ExistingAt(h.intersections, point, 1)
      radius == (maxWidth * 3) \div 4
      type == getIntersectionType(Len(connectedSegments))
  IN  IF Len(connectedSegments) < 2 THEN h
      ELSE IF existing # 0
        THEN [h EXCEPT !.intersections[existing] =
                [@ EXCEPT !.connectedSegments = connectedSegments,
                          !.type = type, !.radius = radius]]
      ELSE [h EXCEPT
              !.intersections = Append(@,
                 [id |-> h.nextIntersectionId, position |-> point,
                  connectedSegments |-> connectedSegments,
                  type |-> type, radius |-> radius]),
              !.nextIntersectionId = @ + 1]

\* `${Math.round(x)},${Math.round(y)}` of a point with integer coordinates
pointKey(p) == p

RECURSIVE AddKeys(_, _)
\* Map.set of the points in turn: a key keeps the place of its first set
AddKeys(keys, pts) ==
  IF pts = <<>> THEN keys
  ELSE AddKeys(IF \E i \in 1 .. Len(keys) : keys[i] = pointKey(Head(pts))
                 THEN keys ELSE Append(keys, pointKey(Head(pts))),
               Tail(pts))

RECURSIVE EndpointsOf(_)
EndpointsOf(segs) ==
  IF segs = <<>> THEN <<>>
  ELSE <<Head(segs).start, Head(segs).end>> \o EndpointsOf(Tail(segs))

RECURSIVE PointsOf(_)
PointsOf(pts) ==
  IF pts = <<>> THEN <<>> ELSE <<Head(pts).point>> \o PointsOf(Tail(pts))

RECURSIVE CreateAll(_, _)
CreateAll(h, points) ==
  IF points = <<>> THEN h
  ELSE CreateAll(createOrUpdateIntersection(h, Head(points)), Tail(points))

updateIntersections(h, segments, intersectionPoints) ==
  CreateAll(h, AddKeys(<<>>, EndpointsOf(segments) \o PointsOf(intersectionPoints)))

\* the body of the inner loop of handleEndpointSnapping for one existing
\* segment: the (possibly) moved copy of segment
snapTo(segment, existing, threshold) ==
  LET s == IF Closer(segment.start, existing.start, threshold) THEN existing.start
           ELSE IF Closer(segment.start, existing.end, threshold) THEN existing.end
           ELSE segment.start
      e == IF Closer(segment.end, existing.start, threshold) THEN existing.start
           ELSE IF Closer(segment.end, existing.end, threshold) THEN existing.end
           ELSE segment.end
  IN  [segment EXCEPT !.start = s, !.end = e]

RECURSIVE SnapOne(_, _, _)
\* inner loop: the segment with this id against every stored segment
SnapOne(segments, id, j) ==
  IF j > Len(segments) THEN segments
  ELSE IF segments[j].id = id THEN SnapOne(segments, id, j + 1)
  ELSE LET i == KeyIndex(segments, id, 1)
       IN  SnapOne([segments EXCEPT
                      ![i] = snapTo(@, segments[j], HANDLER_SNAP_THRESHOLD)],
                   id, j + 1)

RECURSIVE SnapAll(_, _, _)
SnapAll(segments, splitSegments, k) ==
  IF k > Len(splitSegments) THEN segments
  ELSE SnapAll(SnapOne(segments, splitSegments[k].id, 1), splitSegments, k + 1)

handleEndpointSnapping(h, splitSegments) ==
  [h EXCEPT !.segments = SnapAll(@, splitSegments, 1)]

addSegment(h, start, end, width, roadClass) ==
  LET segmentId == WholeId(h.nextSegmentId)
      newSegment == [id |-> segmentId, start |-> start, end |-> end,
                     width |-> width, class |-> roadClass]
      h1 == [h EXCEPT !.nextSegmentId = @ + 1]
      intersectionPoints == findIntersections(h1, newSegment)
      split == splitSegmentAtPoints(h1, newSegment, intersectionPoints)
      h2 == [split.h EXCEPT !.segments = @ \o split.segments]
      \* splitSegmentAtPoints has sorted intersectionPoints in place
      h3 == updateIntersections(h2, split.segments,
              SortByDistance(intersectionPoints, newSegment.start))
  IN  [h |-> handleEndpointSnapping(h3, split.segments), result |-> segmentId]

\* the width and class tables of the paint-road case
roadWidths(roadClass) ==
  CASE roadClass = "highway" -> 24
    [] roadClass = "avenue" -> 16
    [] roadClass = "street" -> 12
    [] roadClass = "local" -> 8

classNum(roadClass) ==
  CASE roadClass = "highway" -> 0
    [] roadClass = "avenue" -> 1
    [] roadClass = "street" -> 2
    [] OTHER -> 3

(***************************************************************************)
(* CityBlockManager.  A manager is a record                                *)
(*   blocks  : the block Map in insertion order, entries                   *)
(*             [id, vertices, parcels (ids), area2, roadEdges]             *)
(*   parcels : the parcel Map in insertion order                           *)
(*   nextBlockId, nextParcelId                                             *)
(* area2 is twice the shoelace area, so that it stays an integer; the      *)
(* perimeter field (a sum of square roots) is not represented.             *)
(***************************************************************************)
MIN_BLOCK_AREA == 100
MAX_BLOCK_AREA == 50000

NewCityBlockManager ==
  [blocks |-> <<>>, parcels |-> <<>>, nextBlockId |-> 0, nextParcelId |-> 0]

\* the last element of a non-empty array, and the array without it
Top(s) == s[Len(s)]
Pop(s) == SubSeq(s, 1, Len(s) - 1)

\* Set.add on an insertion-ordered set
SetAdd(s, x) == IF IndexOf(s, x) = 0 THEN Append(s, x) ELSE s

\* the keys of a Map with increasing integer keys, in insertion order
RECURSIVE KeysFrom(_, _)
KeysFrom(f, lo) ==
  IF \A k \in DOMAIN f : k < lo THEN <<>>
  ELSE LET k == CHOOSE k \in DOMAIN f :
                  k >= lo /\ \A j \in DOMAIN f : j >= lo => k <= j
       IN  <<k>> \o KeysFrom(f, k + 1)

MapKeys(f) == KeysFrom(f, 0)

\* twice GeometryUtils.polygonArea
RECURSIVE ShoelaceFrom(_, _)
ShoelaceFrom(vertices, i) ==
  IF i > Len(vertices) THEN 0
  ELSE LET j == (i % Len(vertices)) + 1
       IN  vertices[i][1] * vertices[j][2] - vertices[j][1] * vertices[i][2]
             + ShoelaceFrom(vertices, i + 1)

polygonArea2(vertices) == Abs(ShoelaceFrom(vertices, 1))

\* one pass of "for (const [edgeId, edge] of edges)" over the adjacency
\* Map: adj is [keys (insertion order), nbrs (node -> ordered Set)]
AdjHas(adj, n) == IndexOf(adj.keys, n) # 0

AdjKey(adj, n) ==
  IF AdjHas(adj, n) THEN adj
  ELSE [keys |-> Append(adj.keys, n), nbrs |-> adj.nbrs @@ (n :> <<>>)]

AdjEdge(adj, edge) ==
  LET keyed == AdjKey(AdjKey(adj, edge.nodeA), edge.nodeB)
      toB   == [keyed EXCEPT !.nbrs[edge.nodeA] = SetAdd(@, edge.nodeB)]
  IN  [toB EXCEPT !.nbrs[edge.nodeB] = SetAdd(@, edge.nodeA)]

RECURSIVE BuildAdjacency(_, _, _)
BuildAdjacency(edges, ids, i) ==
  IF i = 0 THEN [keys |-> <<>>, nbrs |-> EmptyMap]
  ELSE CHOOSE adj \in
         {AdjEdge(before, edge) : before \in {BuildAdjacency(edges, ids, i - 1)},
                                  edge \in {edges[ids[i]]}} : TRUE

\* one turn of "while (stack.length > 0)"; d is [stack, path, visited,
\* cycles], pathSet is the set of the elements of path
RECURSIVE WalkFrom(_, _)
WalkFrom(adj, d) ==
  IF Len(d.stack) = 0 \/ Len(d.cycles) > 500 THEN d
  ELSE
    LET current == Top(d.stack)
    IN  IF IndexOf(d.path, current) # 0
          THEN
            LET cycle == SubSeq(d.path, IndexOf(d.path, current), Len(d.path))
                found == IF Len(cycle) >= 3 /\ Len(cycle) <= 12
                           THEN Append(d.cycles, cycle) ELSE d.cycles
            IN  WalkFrom(adj,
                  [d EXCEPT !.cycles = found,
                            !.stack = Pop(@),
                            !.path = IF Top(@) = current THEN Pop(@) ELSE @])
          ELSE
            LET visited   == d.visited \cup {current}
                path      == Append(d.path, current)
                neighbors == IF AdjHas(adj, current) THEN adj.nbrs[current]
                             ELSE <<>>
                Open(i)   == \/ neighbors[i] \notin visited
                             \/ IndexOf(path, neighbors[i]) # 0
            IN  IF \E i \in 1 .. Len(neighbors) : Open(i)
                  THEN WalkFrom(adj,
                         [d EXCEPT
                            !.visited = visited,
                            !.path = path,
                            !.stack = Append(@,
                               neighbors[CHOOSE i \in 1 .. Len(neighbors) :
                                  Open(i) /\ \A j \in 1 .. (i - 1) : ~Open(j)])])
                  ELSE WalkFrom(adj,
                         [d EXCEPT !.visited = visited, !.stack = Pop(@)])

\* "for (const [nodeId, neighbors] of adjacency)"
RECURSIVE FindCycles(_, _, _)
FindCycles(adj, i, d) ==
  IF i > Len(adj.keys) THEN d.cycles
  ELSE IF adj.keys[i] \in d.visited THEN FindCycles(adj, i + 1, d)
  ELSE FindCycles(adj, i + 1,
         WalkFrom(adj, [d EXCEPT !.stack = <<adj.keys[i]>>, !.path = <<>>]))

\* the positions of the nodes of a cycle that are in the node table
RECURSIVE CycleVertices(_, _, _)
CycleVertices(net, cycle, i) ==
  IF i > Len(cycle) THEN <<>>
  ELSE (IF cycle[i] \in DOMAIN net.nodes THEN <<net.nodes[cycle[i]].pos>>
        ELSE <<>>) \o CycleVertices(net, cycle, i + 1)

\* the first edge of the edge Map between consecutive nodes of a cycle
RECURSIVE CycleEdges(_, _, _)
CycleEdges(net, cycle, i) ==
  IF i > Len(cycle) THEN <<>>
  ELSE
    LET nodeId == cycle[i]
        nextNodeId == cycle[(i % Len(cycle)) + 1]
        ids == MapKeys(net.edges)
        Joins(k) == \/ net.edges[ids[k]].nodeA = nodeId
                       /\ net.edges[ids[k]].nodeB = nextNodeId
                    \/ net.edges[ids[k]].nodeB = nodeId
                       /\ net.edges[ids[k]].nodeA = nextNodeId
    IN  (IF \E k \in 1 .. Len(ids) : Joins(k)
           THEN <<ids[CHOOSE k \in 1 .. Len(ids) :
                        Joins(k) /\ \A j \in 1 .. (k - 1) : ~Joins(j)]>>
           ELSE <<>>) \o CycleEdges(net, cycle, i + 1)

\* "for (const cycle of cycles)": convert the cycles to blocks
RECURSIVE BlocksOf(_, _, _, _)
BlocksOf(bm, net, cycles, i) ==
  IF i > Len(cycles) THEN bm
  ELSE
    LET vertices == CycleVertices(net, cycles[i], 1)
        area2 == polygonArea2(vertices)
    IN  IF /\ Len(vertices) >= 3
           /\ area2 > 2 * MIN_BLOCK_AREA
           /\ area2 < 2 * MAX_BLOCK_AREA
          THEN BlocksOf(
                 [bm EXCEPT
                    !.nextBlockId = @ + 1,
                    !.blocks = Append(@,
                       [id |-> bm.nextBlockId, vertices |-> vertices,
                        parcels |-> <<>>, area2 |-> area2,
                        roadEdges |-> CycleEdges(net, cycles[i], 1)])],
                 net, cycles, i + 1)
          ELSE BlocksOf(bm, net, cycles, i + 1)

findCityBlocks(bm, net) ==
  LET ids == MapKeys(net.edges)
      adjacency == BuildAdjacency(net.edges, ids, Len(ids))
      cycles == FindCycles(adjacency, 1,
                  [stack |-> <<>>, path |-> <<>>, visited |-> {}, cycles |-> <<>>])
  IN  BlocksOf([bm EXCEPT !.blocks = <<>>], net, cycles, 1)

(***************************************************************************)
(* mulberry32.  A 32-bit word is <<high 16 bits, low 16 bits>>; the state  *)
(* of a generator is the word a, a value it returns is the word            *)
(* 4294967296 * rng().                                                     *)
(***************************************************************************)
RECURSIVE Xor16(_, _, _)
Xor16(x, y, bits) ==
  IF bits = 0 THEN 0
  ELSE (IF x % 2 = y % 2 THEN 0 ELSE 1) + 2 * Xor16(x \div 2, y \div 2, bits - 1)

RECURSIVE Or16(_, _, _)
Or16(x, y, bits) ==
  IF bits = 0 THEN 0
  ELSE (IF x % 2 = 1 \/ y % 2 = 1 THEN 1 ELSE 0)
         + 2 * Or16(x \div 2, y \div 2, bits - 1)

WordXor(a, b) == <<Xor16(a[1], b[1], 16), Xor16(a[2], b[2], 16)>>

\* a | c for a constant c < 65536
WordOr(a, c) == <<a[1], Or16(a[2], c, 16)>>

WordAdd(a, b) ==
  <<(a[1] + b[1] + (a[2] + b[2]) \div 65536) % 65536, (a[2] + b[2]) % 65536>>

RECURSIVE Pow2(_)
Pow2(k) == IF k = 0 THEN 1 ELSE 2 * Pow2(k - 1)

\* a >>> k for 0 < k < 16
WordShr(a, k) ==
  <<a[1] \div Pow2(k), (a[2] \div Pow2(k)) + (a[1] % Pow2(k)) * Pow2(16 - k)>>

\* (p * q) mod 65536 for 16-bit p and q
Mul16(p, q) == ((p % 256) * q + (((p \div 256) * q) % 256) * 256) % 65536

\* Math.imul
WordMul(a, b) ==
  LET x == (a[2] % 256) * b[2]
      y == (a[2] \div 256) * b[2]
      low == x + (y % 256) * 256
      mid == (Mul16(a[1], b[2]) + Mul16(a[2], b[1])) % 65536
  IN  <<(low \div 65536 + y \div 256 + mid) % 65536, low % 65536>>

\* a generator whose state also depends on which run of the worker it is in
mulberry32PerRun(seed) == <<0, seed + (IF first = NoRun THEN 0 ELSE 1)>>

\* mulberry32(seed) for 0 <= seed < 65536
mulberry32(seed) == <<0, seed>>

\* one call of the generator: the state after it and the value returned
rngNext(a) ==
  CHOOSE r \in
    {CHOOSE q \in
       {CHOOSE s \in
          {[state |-> a1, value |-> WordXor(t2, WordShr(t2, 14))]
             : t2 \in {WordXor(t1, WordAdd(t1, WordMul(WordXor(t1, WordShr(t1, 7)),
                                                       WordOr(t1, 61))))}} : TRUE
          : t1 \in {WordMul(WordXor(a1, WordShr(a1, 15)), WordOr(a1, 1))}} : TRUE
       : a1 \in {WordAdd(a, <<27947, 31221>>)}} : TRUE

(***************************************************************************)
(* GeometryUtils and ParcelSubdivider.  Polygons are arrays of integer     *)
(* points.  A subdivision is [parcels, exact]: exact tells that every      *)
(* coordinate the source computes came out as an integer, so that the      *)
(* integer polygons are the source's polygons.                             *)
(***************************************************************************)
\* GeometryUtils.pointInPolygon: edge i runs from vertex i - 1 (cyclically)
\* to vertex i
RECURSIVE CrossingsFrom(_, _, _)
CrossingsFrom(point, vertices, i) ==
  IF i > Len(vertices) THEN 0
  ELSE
    LET vi == vertices[i]
        vj == vertices[IF i = 1 THEN Len(vertices) ELSE i - 1]
        dy == vj[2] - vi[2]
        lhs == (point[1] - vi[1]) * dy
        rhs == (vj[1] - vi[1]) * (point[2] - vi[2])
        intersect == /\ (vi[2] > point[2]) # (vj[2] > point[2])
                     /\ IF dy > 0 THEN lhs < rhs ELSE lhs > rhs
    IN  (IF intersect THEN 1 ELSE 0) + CrossingsFrom(point, vertices, i + 1)

pointInPolygon(point, vertices) == CrossingsFrom(point, vertices, 1) % 2 = 1

\* GeometryUtils.lineIntersection: the same quotients as the welder's
geometryLineIntersection(p1, p2, p3, p4) == lineIntersection(p1, p2, p3, p4)

isLeftOfLine(point, lineStart, lineEnd) ==
  (lineEnd[1] - lineStart[1]) * (point[2] - lineStart[2])
    - (lineEnd[2] - lineStart[2]) * (point[1] - lineStart[1]) >= 0

\* the inner loop of clipToPolygon over the vertices of input
RECURSIVE ClipEdge(_, _, _, _)
ClipEdge(input, edge1, edge2, j) ==
  IF j = 0 THEN [poly |-> <<>>, exact |-> TRUE]
  ELSE
    CHOOSE r \in
      {LET curr == input[j]
           prev == input[IF j = 1 THEN Len(input) ELSE j - 1]
           currInside == isLeftOfLine(curr, edge1, edge2)
           prevInside == isLeftOfLine(prev, edge1, edge2)
           intersection == geometryLineIntersection(prev, curr, edge1, edge2)
           crossing == IF intersection # NoPoint THEN <<intersection>> ELSE <<>>
           exact == intersection # NoPoint => lineExact(prev, curr, edge1, edge2)
       IN  IF currInside /\ ~prevInside
             THEN [poly |-> before.poly \o crossing \o <<curr>>,
                   exact |-> before.exact /\ exact]
           ELSE IF currInside
             THEN [poly |-> Append(before.poly, curr), exact |-> before.exact]
           ELSE IF prevInside
             THEN [poly |-> before.poly \o crossing,
                   exact |-> before.exact /\ exact]
           ELSE before
         : before \in {ClipEdge(input, edge1, edge2, j - 1)}} : TRUE

RECURSIVE ClipLoop(_, _, _)
ClipLoop(output, clip, i) ==
  IF i > Len(clip) \/ Len(output.poly) = 0 THEN output
  ELSE CHOOSE r \in
         {ClipLoop(next, clip, i + 1) :
            next \in {[poly |-> clipped.poly,
                       exact |-> output.exact /\ clipped.exact] :
                        clipped \in {ClipEdge(output.poly, clip[i],
                                              clip[(i % Len(clip)) + 1],
                                              Len(output.poly))}}} : TRUE

clipToPolygon(subject, clip) ==
  CHOOSE r \in {ClipLoop([poly |-> s, exact |-> TRUE], c, 1) :
                  s \in {subject}, c \in {clip}} : TRUE

\* PARCEL_WIDTHS: min + max; the density multiplier in thousandths; twice
\* DEPTH_MULTIPLIER
widthSum(zoneType) ==
  CASE zoneType = "residential" -> 45
    [] zoneType = "commercial" -> 60
    [] zoneType = "industrial" -> 90
    [] OTHER -> 0

densityMultiplier(zoneDensity) ==
  CASE zoneDensity = "high" -> 700
    [] zoneDensity = "medium" -> 850
    [] OTHER -> 1000

depthMultiplier2(zoneDensity) ==
  CASE zoneDensity = "low" -> 4
    [] zoneDensity = "medium" -> 3
    [] zoneDensity = "high" -> 2

\* the largest r with r * r <= n
RECURSIVE SqrtFrom(_, _)
SqrtFrom(n, r) == IF (r + 1) * (r + 1) > n THEN r ELSE SqrtFrom(n, r + 1)
Sqrt(n) == SqrtFrom(n, 0)

\* Math.round(n / d) for n >= 0, d > 0
Round(n, d) == (2 * n + d) \div (2 * d)

Max(a, b) == IF a > b THEN a ELSE b

\* estimateBlockDepth(block, i) > 2.5 * targetDepth, through the squares:
\* pointToSegmentDistance(v, s, e)^2 = num / den with
DistToSegment2(v, s, e) ==
  LET dx == e[1] - s[1]
      dy == e[2] - s[2]
      lengthSq == dx * dx + dy * dy
      dot == (v[1] - s[1]) * dx + (v[2] - s[2]) * dy
  IN  IF lengthSq = 0 THEN [num |-> Dist2(v, s), den |-> 1]
      ELSE IF dot <= 0 THEN [num |-> Dist2(v, s), den |-> 1]
      ELSE IF dot >= lengthSq THEN [num |-> Dist2(v, e), den |-> 1]
      ELSE [num |-> Dist2(v, s) * lengthSq - dot * dot, den |-> lengthSq]

\* one front (row = 0) or back (row = 1) parcel of subdivideWithSkeleton
SkeletonParcel(block, frontStart, frontEnd, numParcels, i, row, depthX, depthY) ==
  LET dx == frontEnd[1] - frontStart[1]
      dy == frontEnd[2] - frontStart[2]
      p1 == <<frontStart[1] + (i * dx) \div numParcels + row * depthX,
              frontStart[2] + (i * dy) \div numParcels + row * depthY>>
      p2 == <<frontStart[1] + ((i + 1) * dx) \div numParcels + row * depthX,
              frontStart[2] + ((i + 1) * dy) \div numParcels + row * depthY>>
      p3 == <<p2[1] + depthX, p2[2] + depthY>>
      p4 == <<p1[1] + depthX, p1[2] + depthY>>
  IN  CHOOSE r \in
        {[poly |-> clipped.poly,
          keep |-> Len(clipped.poly) >= 3 /\ polygonArea2(clipped.poly) >= 100,
          exact |-> /\ clipped.exact
                    /\ (i * dx) % numParcels = 0 /\ (i * dy) % numParcels = 0
                    /\ ((i + 1) * dx) % numParcels = 0
                    /\ ((i + 1) * dy) % numParcels = 0]
           : clipped \in {clipToPolygon(<<p1, p2, p3, p4>>, block)}} : TRUE

RECURSIVE SkeletonLoop(_, _, _, _, _, _, _, _)
SkeletonLoop(block, frontStart, frontEnd, numParcels, doDoubleRow, depthX, depthY, i) ==
  IF i = 0 THEN [parcels |-> <<>>, exact |-> TRUE]
  ELSE
    CHOOSE r \in
      {[parcels |-> before.parcels
                      \o (IF front.keep THEN <<front.poly>> ELSE <<>>)
                      \o (IF doDoubleRow /\ back.keep THEN <<back.poly>> ELSE <<>>),
        exact |-> before.exact /\ front.exact /\ (doDoubleRow => back.exact)]
         : before \in {SkeletonLoop(block, frontStart, frontEnd, numParcels,
                                    doDoubleRow, depthX, depthY, i - 1)},
           front \in {SkeletonParcel(block, frontStart, frontEnd, numParcels,
                                     i - 1, 0, depthX, depthY)},
           back \in {SkeletonParcel(block, frontStart, frontEnd, numParcels,
                                    i - 1, 1, depthX, depthY)}} : TRUE

subdivideWithSkeleton(block, zoneType, zoneDensity, frontageEdgeIndex) ==
  LET \* targetWidth = targetWidth2000 / 2000, targetDepth = targetDepth4000 / 4000
      targetWidth2000 == widthSum(zoneType) * densityMultiplier(zoneDensity)
      targetDepth4000 == targetWidth2000 * depthMultiplier2(zoneDensity)
      targetDepth == targetDepth4000 \div 4000
      frontStart == block[frontageEdgeIndex + 1]
      frontEnd == block[((frontageEdgeIndex + 1) % Len(block)) + 1]
      dx == frontEnd[1] - frontStart[1]
      dy == frontEnd[2] - frontStart[2]
      Deep(k) == LET d == DistToSegment2(block[k], frontStart, frontEnd)
                 IN  4 * d.num > 25 * targetDepth * targetDepth * d.den
      doDoubleRow == (\E k \in 1 .. Len(block) : Deep(k)) /\ zoneDensity # "low"
  IN  CHOOSE r \in
        {CHOOSE q \in
           {[parcels |-> loop.parcels,
             exact |-> /\ loop.exact
                       /\ targetDepth4000 % 4000 = 0
                       /\ frontageLength * frontageLength = dx * dx + dy * dy
                       /\ (dy * targetDepth) % frontageLength = 0
                       /\ (dx * targetDepth) % frontageLength = 0]
              : loop \in
                  {SkeletonLoop(vertices, start, end, numParcels, double,
                                depthX, depthY, numParcels)
                     : vertices \in {block}, start \in {frontStart},
                       end \in {frontEnd}, double \in {doDoubleRow},
                       numParcels \in
                         {Max(1, Round(frontageLength * 2000, targetWidth2000))},
                       \* perpDir * targetDepth
                       depthX \in {((0 - dy) * targetDepth) \div frontageLength},
                       depthY \in {(dx * targetDepth) \div frontageLength}}}
             : TRUE
           : frontageLength \in {Sqrt(dx * dx + dy * dy)}} : TRUE

\* A parcel polygon is a record: kind "points" is the polygon with corners
\* pts; kind "cell" is computeVoronoiCell(seeds[cell], seeds, pts): the
\* boundary pts clipped, for every other seed, by clipByHalfPlane with the
\* midpoint of the two seeds as point and (-dy, dx) as normal, which keeps
\* the side of the line THROUGH the two seeds that lies to the left of the
\* direction from seed number cell to the other seed.  A seed is
\* [col, row, jx, jy]: the point
\*   minX + (col + 0.5 + 0.3 * (jx / 2^32 - 0.5)) * cellWidth  (y likewise)
PointsPolygon(pts) == [kind |-> "points", pts |-> pts, cell |-> 0, seeds |-> <<>>]
CellPolygon(boundary, i, seeds) ==
  [kind |-> "cell", pts |-> boundary, cell |-> i, seeds |-> seeds]

Min(a, b) == IF a < b THEN a ELSE b

\* PARCEL_WIDTHS[zoneType].min
widthMin(zoneType) ==
  CASE zoneType = "residential" -> 15
    [] zoneType = "commercial" -> 20
    [] zoneType = "industrial" -> 30
    [] OTHER -> 0

\* ten times the density multiplier of subdivideWithVoronoi
voronoiMultiplier10(zoneDensity) ==
  CASE zoneDensity = "high" -> 6
    [] zoneDensity = "medium" -> 8
    [] OTHER -> 10

\* getPolygonBounds
getPolygonBounds(vertices) ==
  LET xs == {vertices[i][1] : i \in 1 .. Len(vertices)}
      ys == {vertices[i][2] : i \in 1 .. Len(vertices)}
  IN  [minX |-> CHOOSE x \in xs : \A z \in xs : x <= z,
       maxX |-> CHOOSE x \in xs : \A z \in xs : x >= z,
       minY |-> CHOOSE y \in ys : \A z \in ys : y <= z,
       maxY |-> CHOOSE y \in ys : \A z \in ys : y >= z]

\* the block is the rectangle of its bounds, its corners in boundary order:
\* every jittered grid point (at most 0.15 cell off the centre of its cell)
\* then passes pointInPolygon
IsBoundsRectangle(block) ==
  LET b == getPolygonBounds(block)
  IN  /\ Len(block) = 4
      /\ {block[i] : i \in 1 .. 4}
           = {<<b.minX, b.minY>>, <<b.maxX, b.minY>>,
              <<b.maxX, b.maxY>>, <<b.minX, b.maxY>>}
      /\ b.minX < b.maxX /\ b.minY < b.maxY
      /\ \A i \in 1 .. 4 :
           (block[i][1] = block[(i % 4) + 1][1]) # (block[i][2] = block[(i % 4) + 1][2])

\* Math.ceil(Math.sqrt(n))
RECURSIVE CeilSqrtFrom(_, _)
CeilSqrtFrom(n, g) == IF g * g >= n THEN g ELSE CeilSqrtFrom(n, g + 1)
CeilSqrt(n) == CeilSqrtFrom(n, 0)

\* the grid loop of subdivideWithVoronoi with every point accepted: seed k
\* (counted from 0) sits in row k \div gridSize, column k % gridSize, and
\* takes two numbers from the generator
RECURSIVE GridSeeds(_, _, _, _)
GridSeeds(a, numParcels, gridSize, k) ==
  IF k = 0 THEN [seeds |-> <<>>, rng |-> a]
  ELSE CHOOSE r \in
         {CHOOSE q \in
            {CHOOSE s \in
               {[seeds |-> Append(before.seeds,
                            [col |-> (k - 1) % gridSize,
                             row |-> (k - 1) \div gridSize,
                             jx |-> jitterX.value, jy |-> jitterY.value]),
                 rng |-> jitterY.state]
                  : jitterY \in {rngNext(jitterX.state)}} : TRUE
               : jitterX \in {rngNext(before.rng)}} : TRUE
            : before \in {GridSeeds(a, numParcels, gridSize, k - 1)}} : TRUE

\* subdivideWithVoronoi, with the generator's state a; exact tells that the
\* grid loop fills all seeds and every cell is kept: the block is the
\* rectangle of its bounds (width W, height H) and there are two seeds.
\* Both are in row 0 of a 2 x 2 grid, between 0.175 H and 0.325 H high and
\* at least 0.35 W apart, so the line through them leaves the rectangle by
\* its two upright sides and cuts it into two quadrilaterals of at least
\* 0.175 W H, which is 50 or more
subdivideWithVoronoi(block, zoneType, zoneDensity, a) ==
  LET blockArea2 == polygonArea2(block)
      \* targetParcelArea = targetArea80 / 80
      targetArea80 == widthSum(zoneType) * widthSum(zoneType)
                        * depthMultiplier2(zoneDensity)
                        * voronoiMultiplier10(zoneDensity)
      minArea8 == 8 * widthMin(zoneType) * widthMin(zoneType)
      maxParcels == (5 * blockArea2 + minArea8 - 1) \div minArea8
      numParcels == Max(2, Min(maxParcels, Round(40 * blockArea2, targetArea80)))
      gridSize == CeilSqrt(numParcels)
      bounds == getPolygonBounds(block)
      grid == GridSeeds(a, numParcels, gridSize, numParcels)
  IN  [parcels |-> [i \in 1 .. numParcels |-> CellPolygon(block, i, grid.seeds)],
       rng |-> grid.rng,
       exact |-> /\ IsBoundsRectangle(block)
                 /\ numParcels = 2
                 /\ 7 * blockArea2 >= 4000]

\* CityBlockManager.polygonsIntersect
polygonsIntersect(poly1, poly2) ==
  \/ \E i \in 1 .. Len(poly1) : pointInPolygon(poly1[i], poly2)
  \/ \E i \in 1 .. Len(poly2) : pointInPolygon(poly2[i], poly1)
  \/ \E i \in 1 .. Len(poly1), j \in 1 .. Len(poly2) :
       geometryLineIntersection(poly1[i], poly1[(i % Len(poly1)) + 1],
                                poly2[j], poly2[(j % Len(poly2)) + 1]) # NoPoint

\* "if (dist < minDistance)" for the midpoint of block edge i and road edge
\* roadEdgeId, on doubled coordinates; f is [num, den, index], num = -1
\* standing for Infinity
Twice(p) == <<2 * p[1], 2 * p[2]>>

FrontageStep(f, block, net, i, roadEdgeId) ==
  IF roadEdgeId \notin DOMAIN net.edges THEN f
  ELSE
    LET edge == net.edges[roadEdgeId]
    IN  IF edge.nodeA \notin DOMAIN net.nodes \/ edge.nodeB \notin DOMAIN net.nodes
          THEN f
          ELSE
            LET edgeStart == block[i]
                edgeEnd == block[(i % Len(block)) + 1]
                midpoint2 == <<edgeStart[1] + edgeEnd[1], edgeStart[2] + edgeEnd[2]>>
                d == DistToSegment2(midpoint2, Twice(net.nodes[edge.nodeA].pos),
                                    Twice(net.nodes[edge.nodeB].pos))
            IN  IF f.num < 0 \/ d.num * f.den < f.num * d.den
                  THEN [num |-> d.num, den |-> d.den, index |-> i - 1]
                  ELSE f

\* the two nested loops that choose bestFrontageIndex; k counts the pairs
\* (block edge, road edge) done
RECURSIVE FrontageLoop(_, _, _)
FrontageLoop(block, net, k) ==
  IF k = 0 THEN [num |-> 0 - 1, den |-> 1, index |-> 0]
  ELSE LET m == Len(block.roadEdges)
       IN  FrontageStep(FrontageLoop(block, net, k - 1), block.vertices, net,
                        ((k - 1) \div m) + 1, block.roadEdges[((k - 1) % m) + 1])

bestFrontageIndex(block, net) ==
  FrontageLoop(block, net, Len(block.vertices) * Len(block.roadEdges)).index

\* "Create parcel objects": the parcels of polygons k .. Len(polygons) are
\* added to block number b of the manager
RECURSIVE CreateParcels(_, _, _, _, _)
CreateParcels(z, b, polygons, request, k) ==
  IF k > Len(polygons) THEN z
  ELSE
    LET vertices == polygons[k]
        skip == /\ vertices.kind = "points"
                /\ \/ Len(vertices.pts) < 3
                   \/ polygonArea2(vertices.pts) < 100
        id == z.bm.nextParcelId
        parcel == [id |-> id, vertices |-> vertices,
                   zoneType |-> request.zoneType,
                   zoneDensity |-> request.zoneDensity,
                   blockId |-> z.bm.blocks[b].id]
    IN  IF skip THEN CreateParcels(z, b, polygons, request, k + 1)
        ELSE CHOOSE r \in
               {CreateParcels(added, b, polygons, request, k + 1)
                  : added \in {[z EXCEPT !.bm.nextParcelId = id + 1,
                                         !.bm.parcels = Append(@, parcel),
                                         !.bm.blocks[b].parcels = Append(@, id),
                                         !.result = Append(@, id)]}} : TRUE

\* the body of "for (const [blockId, block] of this.blocks)" for block b
PaintBlock(z, b, request, net) ==
  LET block == z.bm.blocks[b]
      cleared == [z EXCEPT
                    !.bm.parcels = SelectSeq(@, LAMBDA p :
                                     IndexOf(block.parcels, p.id) = 0),
                    !.bm.blocks[b].parcels = <<>>,
                    !.found = TRUE]
      skeleton == subdivideWithSkeleton(block.vertices, request.zoneType,
                    request.zoneDensity, bestFrontageIndex(block, net))
      voronoi == subdivideWithVoronoi(block.vertices, request.zoneType,
                    request.zoneDensity, z.rng)
  IN  IF ~polygonsIntersect(block.vertices, request.polygon) THEN z
      ELSE IF request.subdivisionMethod = "voronoi"
        THEN CHOOSE r \in
               {CHOOSE q \in
                  {CreateParcels(start, b, v.parcels, request, 1)
                     : start \in {[cleared EXCEPT !.rng = v.rng,
                                                  !.exact = @ /\ v.exact]}} : TRUE
                  : v \in {voronoi}} : TRUE
        ELSE CHOOSE r \in
               {CHOOSE q \in
                  {CreateParcels(start, b, polygons, request, 1)
                     : start \in {[cleared EXCEPT !.exact = @ /\ s.exact]},
                       polygons \in {[k \in 1 .. Len(s.parcels) |->
                                        PointsPolygon(s.parcels[k])]}} : TRUE
                  : s \in {skeleton}} : TRUE

RECURSIVE PaintBlocks(_, _, _, _)
PaintBlocks(z, request, net, b) ==
  IF b > Len(z.bm.blocks) THEN z
  ELSE CHOOSE r \in {PaintBlocks(painted, request, net, b + 1)
                       : painted \in {PaintBlock(z, b, request, net)}} : TRUE

\* the standalone zone: a virtual block of the painted polygon
PaintVirtual(z, request) ==
  LET virtualBlock == [id |-> z.bm.nextBlockId, vertices |-> request.polygon,
                       parcels |-> <<>>, area2 |-> polygonArea2(request.polygon),
                       roadEdges |-> <<>>]
      stored == [z EXCEPT !.bm.nextBlockId = @ + 1,
                          !.bm.blocks = Append(@, virtualBlock)]
      skeleton == subdivideWithSkeleton(request.polygon, request.zoneType,
                                        request.zoneDensity, 0)
  IN  CHOOSE r \in
        {CHOOSE q \in
           {CreateParcels(start, Len(start.bm.blocks), polygons, request, 1)
              : start \in {[stored EXCEPT !.exact = @ /\ s.exact]},
                polygons \in {[k \in 1 .. Len(s.parcels) |->
                                 PointsPolygon(s.parcels[k])]}} : TRUE
           : s \in {skeleton}} : TRUE

\* CityBlockManager.paintZone with the generator's state a: the manager
\* and the state after the call, the affected parcel ids, and exact
paintZone(bm, request, net, a) ==
  CHOOSE r \in
    {IF ~blocksDone.found /\ Len(request.polygon) >= 3
       THEN PaintVirtual(blocksDone, request)
       ELSE blocksDone
       : blocksDone \in
           {PaintBlocks(start, request, net, 1)
              : start \in {[bm |-> bm, rng |-> a, result |-> <<>>,
                            found |-> FALSE, exact |-> TRUE]}}} : TRUE

\* CityBlockManager.clear
clearManager(bm) == NewCityBlockManager

(***************************************************************************)
(* BuildingManager.  A manager is a record                                 *)
(*   buildings : the building Map in insertion order, entries              *)
(*               [id, parcelId, seed, zoneType, zoneDensity, level]        *)
(*   meshCache : the keys of the mesh cache in insertion order, entries    *)
(*               [buildingId, lod]                                         *)
(*   nextBuildingId                                                        *)
(* The footprint, the heights, the style and the roof of a building and    *)
(* the vertex arrays of a mesh are not represented.                        *)
(***************************************************************************)
NewBuildingManager == [buildings |-> <<>>, meshCache |-> <<>>, nextBuildingId |-> 0]

\* "return null" of the two methods below
NoBuilding == [null |-> TRUE]
NoMesh == [null |-> TRUE]

\* BuildingManager.generateBuildingForParcel: the manager after the call and
\* the building, NoBuilding when none is made.  offsetPolygon returns as many
\* corners as the parcel has, so the footprint never has fewer than three.
generateBuildingForParcel(bg, parcel, level) ==
  IF parcel.zoneType = "none" THEN [bg |-> bg, building |-> NoBuilding]
  ELSE
    LET building == [id |-> bg.nextBuildingId, parcelId |-> parcel.id,
                     seed |-> parcel.id, zoneType |-> parcel.zoneType,
                     zoneDensity |-> parcel.zoneDensity, level |-> level]
    IN  [bg |-> [bg EXCEPT !.nextBuildingId = @ + 1,
                           !.buildings = Append(@, building)],
         building |-> building]

RECURSIVE FirstBuildingOf(_, _, _)
\* "for (const [_, b] of this.buildings) if (b.parcelId === parcelId)": the
\* index of the first building of the parcel from index i on, 0 when none
FirstBuildingOf(buildings, parcelId, i) ==
  IF i > Len(buildings) THEN 0
  ELSE IF buildings[i].parcelId = parcelId THEN i
  ELSE FirstBuildingOf(buildings, parcelId, i + 1)

\* BuildingManager.getBuildingMeshForParcel: the manager after the call and
\* the mesh data, NoMesh when the parcel has no building
getBuildingMeshForParcel(bg, parcelId, lod) ==
  LET i == FirstBuildingOf(bg.buildings, parcelId, 1)
      cacheKey == [buildingId |-> bg.buildings[i].id, lod |-> lod]
  IN  IF i = 0 THEN [bg |-> bg, meshData |-> NoMesh]
      ELSE [bg |-> IF IndexOf(bg.meshCache, cacheKey) = 0
                     THEN [bg EXCEPT !.meshCache = Append(@, cacheKey)]
                     ELSE bg,
            meshData |-> [buildingId |-> bg.buildings[i].id, lod |-> lod]]

RECURSIVE CentroidSum(_, _, _)
\* the sums cx (c = 1) and cy (c = 2) of polygonCentroid over edges 1 .. i
CentroidSum(vertices, c, i) ==
  IF i = 0 THEN 0
  ELSE LET a == vertices[i]
           b == vertices[(i % Len(vertices)) + 1]
       IN  CentroidSum(vertices, c, i - 1)
             + (a[c] + b[c]) * (a[1] * b[2] - b[1] * a[2])

\* GeometryUtils.polygonCentroid, doubled: scale is 1 / (3 * area2); exact
\* tells that the doubled coordinates are integers
polygonCentroid2(vertices) ==
  LET cx == Abs(CentroidSum(vertices, 1, Len(vertices)))
      cy == Abs(CentroidSum(vertices, 2, Len(vertices)))
      d == 3 * polygonArea2(vertices)
  IN  IF d = 0 THEN [x |-> 0, y |-> 0, exact |-> FALSE]
      ELSE [x |-> (2 * cx) \div d, y |-> (2 * cy) \div d,
            exact |-> (2 * cx) % d = 0 /\ (2 * cy) % d = 0]

\* four times the square of the distance from the centroid of the parcel to
\* the position
CentroidDist2(parcel, position) ==
  LET c == polygonCentroid2(parcel.vertices.pts)
  IN  (c.x - 2 * position[1]) * (c.x - 2 * position[1])
        + (c.y - 2 * position[2]) * (c.y - 2 * position[2])

RECURSIVE FirstParcel(_, _, _)
\* Array.find / the loop of findParcelAt: the index of the first parcel from
\* index i on that passes the test, 0 when none does
FirstParcel(parcels, Test(_), i) ==
  IF i > Len(parcels) THEN 0
  ELSE IF Test(parcels[i]) THEN i
  ELSE FirstParcel(parcels, Test, i + 1)

\* CityBlockManager.findParcelAt (an index into the parcel Map, 0 for null)
findParcelAt(bm, point) ==
  FirstParcel(bm.parcels, LAMBDA q : pointInPolygon(point, q.vertices.pts), 1)

RECURSIVE ClosestParcel(_, _, _)
\* "if (dist < minDist)" over parcels 1 .. i: the index of the closest
\* parcel, 0 when there is no parcel
ClosestParcel(parcels, position, i) ==
  IF i = 0 THEN 0
  ELSE CHOOSE r \in
         {IF best = 0
             \/ CentroidDist2(parcels[i], position)
                  < CentroidDist2(parcels[best], position)
            THEN i ELSE best
            : best \in {ClosestParcel(parcels, position, i - 1)}} : TRUE

\* the three attempts of case 'generate-building-for-zone' to find the
\* parcel of a position: an index into the parcel Map, 0 for null
LocateParcel(bm, position) ==
  LET inside == findParcelAt(bm, position)
      exactMatch == FirstParcel(bm.parcels,
                      LAMBDA q : CentroidDist2(q, position) < 4 * 5 * 5, 1)
      closest == ClosestParcel(bm.parcels, position, Len(bm.parcels))
  IN  IF inside # 0 THEN inside
      ELSE IF exactMatch # 0 THEN exactMatch
      ELSE IF closest # 0
              /\ CentroidDist2(bm.parcels[closest], position) < 4 * 100 * 100
        THEN closest
      ELSE 0

(***************************************************************************)
(* Numbers of the massing: IEEE 754 binary64, as the heights are computed  *)
(* and compared in it.  A natural of any size is the sequence of its       *)
(* digits in base 32768, lowest first, without leading zeros (<<>> is 0).  *)
(* A double is [neg, m, e]: the value (-1)^neg * m * 2^e with m of exactly *)
(* 53 bits, or m = <<>> for zero.  Exponents stay far inside the normal    *)
(* range; infinities and NaN do not occur.                                 *)
(***************************************************************************)
RECURSIVE BigTrim(_)
BigTrim(a) ==
  IF a = <<>> \/ a[Len(a)] # 0 THEN a ELSE BigTrim(SubSeq(a, 1, Len(a) - 1))

Limb(a, i) == IF i <= Len(a) THEN a[i] ELSE 0

RECURSIVE BigAddFrom(_, _, _, _)
BigAddFrom(a, b, i, carry) ==
  IF i > Len(a) /\ i > Len(b) THEN (IF carry = 0 THEN <<>> ELSE <<carry>>)
  ELSE CHOOSE r \in {<<s % 32768>> \o BigAddFrom(a, b, i + 1, s \div 32768)
                       : s \in {Limb(a, i) + Limb(b, i) + carry}} : TRUE

BigAdd(a, b) == BigAddFrom(a, b, 1, 0)

RECURSIVE BigSubFrom(_, _, _, _)
BigSubFrom(a, b, i, borrow) ==
  IF i > Len(a) THEN <<>>
  ELSE CHOOSE r \in {<<d % 32768>>
                       \o BigSubFrom(a, b, i + 1, IF d < 32768 THEN 1 ELSE 0)
                       : d \in {32768 + a[i] - Limb(b, i) - borrow}} : TRUE

\* a - b for a >= b
BigSub(a, b) == BigTrim(BigSubFrom(a, b, 1, 0))

RECURSIVE BigLessFrom(_, _, _)
BigLessFrom(a, b, i) ==
  IF i = 0 THEN FALSE
  ELSE IF a[i] # b[i] THEN a[i] < b[i]
  ELSE BigLessFrom(a, b, i - 1)

BigLess(a, b) ==
  IF Len(a) # Len(b) THEN Len(a) < Len(b) ELSE BigLessFrom(a, b, Len(a))

RECURSIVE BigScaleFrom(_, _, _, _)
BigScaleFrom(a, k, i, carry) ==
  IF i > Len(a) THEN (IF carry = 0 THEN <<>> ELSE <<carry>>)
  ELSE CHOOSE r \in {<<p % 32768>> \o BigScaleFrom(a, k, i + 1, p \div 32768)
                       : p \in {a[i] * k + carry}} : TRUE

\* a * k for 0 <= k < 32768
BigScale(a, k) == BigTrim(BigScaleFrom(a, k, 1, 0))

RECURSIVE BigMulFrom(_, _, _)
BigMulFrom(a, b, i) ==
  IF i > Len(b) THEN <<>>
  ELSE CHOOSE r \in {BigAdd(s, <<0>> \o t)
                       : s \in {BigScale(a, b[i])},
                         t \in {BigMulFrom(a, b, i + 1)}} : TRUE

BigMul(a, b) == BigTrim(BigMulFrom(a, b, 1))

RECURSIVE SmallBits(_)
SmallBits(n) == IF n = 0 THEN 0 ELSE 1 + SmallBits(n \div 2)

\* the number of bits of a
BitLen(a) == IF a = <<>> THEN 0 ELSE 15 * (Len(a) - 1) + SmallBits(a[Len(a)])

\* a * 2^k
BigShl(a, k) ==
  IF a = <<>> THEN <<>>
  ELSE [i \in 1 .. (k \div 15) |-> 0] \o BigScale(a, Pow2(k % 15))

\* a \div 2^k
BigShr(a, k) ==
  CHOOSE r \in
    {BigTrim([i \in 1 .. Len(rest) |->
                (rest[i] \div low) + (Limb(rest, i + 1) % low) * (32768 \div low)])
       : rest \in {SubSeq(a, (k \div 15) + 1, Len(a))},
         low \in {Pow2(k % 15)}} : TRUE

RECURSIVE BigDivFrom(_, _, _, _)
\* the quotient and the remainder of (rem * 32768^i + the lowest i digits of
\* a) divided by d, for rem < d <= 1000
BigDivFrom(a, d, i, rem) ==
  IF i = 0 THEN [q |-> <<>>, r |-> rem]
  ELSE CHOOSE r \in
         {CHOOSE s \in {[q |-> below.q \o <<cur \div d>>, r |-> below.r]
                          : below \in {BigDivFrom(a, d, i - 1, cur % d)}} : TRUE
            : cur \in {rem * 32768 + a[i]}} : TRUE

FZero == [neg |-> FALSE, m |-> <<>>, e |-> 0]

\* the double nearest to (-1)^neg * m * 2^e, ties to the even mantissa
FRound(neg, m, e) ==
  CHOOSE r \in
    {IF len = 0 THEN FZero
     ELSE IF len <= 53
       THEN [neg |-> neg, m |-> BigShl(n, 53 - len), e |-> e - (53 - len)]
     ELSE CHOOSE s \in
            {CHOOSE t \in
               {IF BitLen(q1) = 54
                  THEN [neg |-> neg, m |-> BigShr(q1, 1), e |-> e + (len - 53) + 1]
                  ELSE [neg |-> neg, m |-> q1, e |-> e + (len - 53)]
                  : q1 \in {IF half[1] % 2 = 1
                               /\ (BigShl(half, len - 54) # n \/ q[1] % 2 = 1)
                              THEN BigAdd(q, <<1>>) ELSE q}} : TRUE
               : q \in {BigShr(n, len - 53)},
                 half \in {BigShr(n, len - 54)}} : TRUE
       : n \in {m}, len \in {BitLen(m)}} : TRUE

FMul(x, y) ==
  CHOOSE r \in
    {IF a.m = <<>> \/ b.m = <<>> THEN FZero
     ELSE FRound(a.neg # b.neg, BigMul(a.m, b.m), a.e + b.e)
       : a \in {x}, b \in {y}} : TRUE

FAdd(x, y) ==
  CHOOSE r \in
    {IF a.m = <<>> THEN b
     ELSE IF b.m = <<>> THEN a
     ELSE CHOOSE s \in
            {IF a.neg = b.neg THEN FRound(a.neg, BigAdd(ma, mb), Min(a.e, b.e))
             ELSE IF ma = mb THEN FZero
             ELSE IF BigLess(ma, mb)
               THEN FRound(b.neg, BigSub(mb, ma), Min(a.e, b.e))
             ELSE FRound(a.neg, BigSub(ma, mb), Min(a.e, b.e))
               : ma \in {BigShl(a.m, a.e - Min(a.e, b.e))},
                 mb \in {BigShl(b.m, b.e - Min(a.e, b.e))}} : TRUE
       : a \in {x}, b \in {y}} : TRUE

FNeg(x) == IF x.m = <<>> THEN x ELSE [x EXCEPT !.neg = ~@]

FSub(x, y) == FAdd(x, FNeg(y))

\* x < y
FLess(x, y) ==
  CHOOSE r \in {d.m # <<>> /\ d.neg : d \in {FSub(x, y)}} : TRUE

\* Math.max and Math.min
FMax(x, y) == CHOOSE r \in {IF FLess(a, b) THEN b ELSE a : a \in {x}, b \in {y}} : TRUE
FMin(x, y) == CHOOSE r \in {IF FLess(b, a) THEN b ELSE a : a \in {x}, b \in {y}} : TRUE

\* the integer n, 0 <= n < 32768
FInt(n) == FRound(FALSE, IF n = 0 THEN <<>> ELSE <<n>>, 0)

\* the decimal literal n / d (such as 0.05 = 5 / 100): the double nearest to
\* the quotient.  The quotient of n * 2^75 is cut to an integer and a last
\* bit is appended that tells whether anything was cut off.
FLiteral(n, d) ==
  CHOOSE r \in
    {FRound(FALSE, BigAdd(BigScale(BigTrim(cut.q), 2), IF cut.r = 0 THEN <<>> ELSE <<1>>),
            0 - 76)
       : cut \in {BigDivFrom(BigShl(<<n>>, 75), d, 6, 0)}} : TRUE

\* the number returned by the generator: value / 4294967296, value given as
\* its two 16-bit halves
FUnit(value) ==
  FRound(FALSE,
         BigTrim(<<value[2] % 32768,
                   (value[2] \div 32768) + (value[1] % 16384) * 2,
                   value[1] \div 16384>>),
         0 - 32)

\* Math.floor(x) for a double 0 <= x < 32768
FFloor(x) ==
  CHOOSE r \in {IF q = <<>> THEN 0 ELSE q[1]
                  : q \in {IF x.m = <<>> THEN <<>> ELSE BigShr(x.m, 0 - x.e)}} : TRUE

(***************************************************************************)
(* The heights of a massing                                                *)
(***************************************************************************)
\* HEIGHT_BY_DENSITY
heightRange(zoneDensity) ==
  CASE zoneDensity = "low" -> [min |-> 3, max |-> 6]
    [] zoneDensity = "medium" -> [min |-> 9, max |-> 15]
    [] zoneDensity = "high" -> [min |-> 18, max |-> 60]

\* STYLE_BY_ERA, for three of the eras
stylesOfEra(era) ==
  CASE era = "1890s" -> <<"victorian">>
    [] era = "1930s" -> <<"art-deco">>
    [] era = "1950s" -> <<"modern", "brutalist">>

\* BuildingManager.getStyleForEra with the number the generator returned
getStyleForEra(era, u) ==
  stylesOfEra(era)[FFloor(FMul(u, FInt(Len(stylesOfEra(era))))) + 1]

\* the switch of splitVertical: baseRatio and roofRatio in hundredths
styleRatios(style) ==
  CASE style = "victorian" -> [base |-> 15, roof |-> 20]
    [] style = "art-deco" -> [base |-> 20, roof |-> 15]
    [] style \in {"modern", "contemporary"} -> [base |-> 10, roof |-> 5]
    [] style = "brutalist" -> [base |-> 8, roof |-> 3]
    [] style = "postmodern" -> [base |-> 12, roof |-> 10]
    [] style = "futuristic" -> [base |-> 5, roof |-> 8]
    [] OTHER -> [base |-> 10, roof |-> 10]

\* "ratio += (this.rng() - 0.5) * 0.05" for the number u the generator
\* returned
variedRatio(hundredths, u) ==
  FAdd(FLiteral(hundredths, 100),
       FMul(FSub(u, FLiteral(5, 10)), FLiteral(5, 100)))

\* splitVertical that takes the body to be all that is above the base
splitVerticalNoRoof(height, style, a) ==
  CHOOSE r \in
    {CHOOSE s \in
       {[base |-> base, body |-> FSub(h, base), roof |-> roof, rng |-> v2.state]
          : base \in {FMul(h, FMax(FLiteral(5, 100),
                                   FMin(FLiteral(25, 100),
                                        variedRatio(styleRatios(style).base,
                                                    FUnit(v1.value)))))},
            roof \in {FMul(h, FMax(FLiteral(3, 100),
                                   FMin(FLiteral(25, 100),
                                        variedRatio(styleRatios(style).roof,
                                                    FUnit(v2.value)))))}} : TRUE
       : h \in {height}, v1 \in {rngNext(a)},
         v2 \in {rngNext(rngNext(a).state)}} : TRUE

\* SplitGrammar.splitVertical with the shared generator in state a: the
\* three heights and the state of the generator after the two calls
splitVertical(height, style, a) ==
  CHOOSE r \in
    {CHOOSE s \in
       {[base |-> base, body |-> FSub(FSub(h, base), roof), roof |-> roof,
         rng |-> v2.state]
          : base \in {FMul(h, FMax(FLiteral(5, 100),
                                   FMin(FLiteral(25, 100),
                                        variedRatio(styleRatios(style).base,
                                                    FUnit(v1.value)))))},
            roof \in {FMul(h, FMax(FLiteral(3, 100),
                                   FMin(FLiteral(25, 100),
                                        variedRatio(styleRatios(style).roof,
                                                    FUnit(v2.value)))))}} : TRUE
       : h \in {height}, v1 \in {rngNext(a)},
         v2 \in {rngNext(rngNext(a).state)}} : TRUE

\* the fourth number of parcelRng, the one the height is drawn with:
\* getStyleForEra and getSetback take one number each, getRoofForEra one,
\* or two when the density is high and the first is not above 0.3
heightDraw(parcel, level) ==
  CHOOSE r \in
    {CHOOSE s \in
       {rngNext(rngNext(IF parcel.zoneDensity = "high"
                           /\ ~FLess(FLiteral(3, 10), FUnit(d2.value))
                          THEN rngNext(d2.state).state
                          ELSE d2.state).state).value
          : d2 \in {rngNext(d1.state)}} : TRUE
       : d1 \in {rngNext(mulberry32(parcel.id + level * 1000))}} : TRUE

\* "era >= '1950s'"
eraFrom1950s(era) == era \notin {"1890s", "1910s", "1930s"}

\* the part of generateBuildingForParcel that makes the heights of the
\* massing, with the shared generator in state a
massingHeights(parcel, era, level, a) ==
  CHOOSE r \in
    {CHOOSE s \in
       {[height |-> adjustedHeight, baseHeight |-> splits.base,
         bodyHeight |-> splits.body, roofHeight |-> splits.roof,
         rng |-> splits.rng]
          : splits \in
              {splitVertical(adjustedHeight,
                 IF parcel.zoneType = "industrial" /\ eraFrom1950s(era)
                   THEN "modern"
                   ELSE getStyleForEra(era,
                          FUnit(rngNext(mulberry32(parcel.id + level * 1000)).value)),
                 a)}} : TRUE
       : adjustedHeight \in
           {CHOOSE t \in
              {CASE parcel.zoneType = "commercial" -> FMul(height, FLiteral(11, 10))
                 [] parcel.zoneType = "industrial" -> FMul(height, FLiteral(7, 10))
                 [] OTHER -> height
                 : height \in
                     {FMul(FAdd(FInt(heightRange(parcel.zoneDensity).min),
                                FMul(FUnit(heightDraw(parcel, level)),
                                     FInt(heightRange(parcel.zoneDensity).max
                                            - heightRange(parcel.zoneDensity).min))),
                           FAdd(FInt(1),
                                FMul(FInt(level - 1), FLiteral(3, 10))))}} : TRUE}}
      : TRUE

(***************************************************************************)
(* State machine of the road graph                                         *)
(***************************************************************************)
InitNet ==
  /\ network = NewRoadNetwork
  /\ last = [op |-> "new", args |-> <<>>, result |-> NULL]

AddNode(p) ==
  /\ network.nextNodeId < MaxNodes
  /\ LET r == addNode(network, p[1], p[2])
     IN  /\ network' = r.net
         /\ last' = [op |-> "addNode", args |-> p, result |-> r.result]

AddEdge(a, b) ==
  /\ network.nextEdgeId < MaxEdges
  /\ LET r == addEdge(network, a, b)
     IN  /\ network' = r.net
         /\ last' = [op |-> "addEdge", args |-> <<a, b>>, result |-> r.result]

RemoveEdge(e) ==
  /\ network' = removeEdge(network, e)
  /\ last' = [op |-> "removeEdge", args |-> <<e>>, result |-> NULL]

RemoveNode(n) ==
  /\ network' = removeNode(network, n)
  /\ last' = [op |-> "removeNode", args |-> <<n>>, result |-> NULL]

PaintRoad(s, e) ==
  /\ network.nextNodeId + 2 <= MaxNodes
  /\ network.nextEdgeId < MaxEdges
  /\ LET r == paintRoad(network, s, e)
     IN  /\ network' = r.net
         /\ last' = [op |-> "paintRoad", args |-> <<r.startNode, r.endNode>>,
                     result |-> IF r.result THEN 1 ELSE 0]

(***************************************************************************)
(* State machine of the worker's road painting                             *)
(***************************************************************************)
\* intersectionHandler = null, and no reply posted yet
NoHandler == [null |-> TRUE]
NoReply == [type |-> "none", success |-> FALSE]

NoManager == [null |-> TRUE]

\* "let rng = mulberry32(1)"; the default of "msg.seed || 1"
DefaultSeed == 1

\* the worker's variables that road painting leaves alone, and the mail
zoneVars == <<blockManager, rng, buildingManager>>
mailVars == <<inbox, received, outbox, first>>

InitWelder ==
  /\ first = NoRun
  /\ handler = NoHandler
  /\ reply = NoReply
  /\ blockManager = NoManager
  /\ rng = mulberry32(DefaultSeed)
  /\ buildingManager = NoManager
  /\ inbox = <<>>
  /\ received = <<>>
  /\ outbox = <<>>

InitAll == InitNet /\ InitWelder

\* every crossing of the new segment with a stored one has integer
\* coordinates (the painted segments are chosen so)
ExactInput(h, start, end) ==
  \A i \in 1 .. Len(h.segments) :
    lineCrosses(start, end, h.segments[i].start, h.segments[i].end)
      => lineExact(start, end, h.segments[i].start, h.segments[i].end)

\* boot / shuffle-seed / set-era: initializeGenerator makes a new handler
OnBoot(seed) ==
  /\ handler' = NewIntersectionHandler
  /\ rng' = mulberry32(seed)
  /\ blockManager' = findCityBlocks(NewCityBlockManager, network)
  /\ buildingManager' = NewBuildingManager
  /\ reply' = [type |-> "roads-generated", success |-> TRUE]
  /\ last' = [op |-> "boot", args |-> <<>>, result |-> NULL]

\* case 'paint-road'
OnPaintRoad(start, end, roadClass) ==
  /\ UNCHANGED zoneVars
  /\ IF handler = NoHandler
       THEN /\ reply' = [type |-> "road-painted", success |-> FALSE]
            /\ last' = [op |-> "paint-road", args |-> <<start, end, roadClass>>,
                        result |-> NULL]
            /\ UNCHANGED handler
       ELSE /\ Len(handler.segments) < MaxSegments
            /\ ExactInput(handler, start, end)
            /\ \E r \in {addSegment(handler, start, end, roadWidths(roadClass),
                                     classNum(roadClass))} :
                 /\ handler' = r.h
                 /\ last' = [op |-> "paint-road",
                             args |-> <<start, end, roadClass>>,
                             result |-> r.result]
            /\ reply' = [type |-> "road-painted", success |-> TRUE]

\* "msg.field || fallback" for a string field
OrDefault(value, fallback) == IF value = Missing THEN fallback ELSE value

\* the ZonePaintRequest that case 'paint-zone' builds from the message (the
\* messages carry a polygon)
ZoneRequest(msg) ==
  [polygon |-> msg.polygon,
   zoneType |-> OrDefault(msg.zoneType, "residential"),
   zoneDensity |-> OrDefault(msg.zoneDensity, "medium"),
   subdivisionMethod |-> OrDefault(msg.subdivisionMethod, "skeleton")]

\* getBlocks().map(...) of the replies
BlockList(bm) ==
  [b \in 1 .. Len(bm.blocks) |->
     [id |-> bm.blocks[b].id, vertices |-> bm.blocks[b].vertices,
      area2 |-> bm.blocks[b].area2, parcelCount |-> Len(bm.blocks[b].parcels)]]

\* case 'paint-zone'
OnPaintZone(msg) ==
  /\ last' = [op |-> "paint-zone", args |-> msg, result |-> NULL]
  /\ UNCHANGED <<handler, buildingManager>>
  /\ IF blockManager = NoManager
       THEN /\ reply' = [type |-> "zone-painted", success |-> FALSE]
            /\ UNCHANGED <<blockManager, rng>>
       ELSE /\ \E r \in {paintZone(blockManager, ZoneRequest(msg), network, rng)} :
                 /\ r.exact
                 /\ blockManager' = r.bm
                 /\ rng' = r.rng
                 /\ reply' = [type |-> "zone-painted", success |-> TRUE,
                              affectedParcelIds |-> r.result,
                              affectedParcels |->
                                SelectSeq(r.bm.parcels,
                                          LAMBDA q : IndexOf(r.result, q.id) # 0),
                              blocks |-> BlockList(r.bm)]

\* case 'clear-zones'
OnClearZones ==
  /\ last' = [op |-> "clear-zones", args |-> <<>>, result |-> NULL]
  /\ UNCHANGED <<handler, rng>>
  /\ IF blockManager = NoManager
       THEN /\ reply' = NoReply
            /\ UNCHANGED <<blockManager, buildingManager>>
       ELSE /\ blockManager' = findCityBlocks(clearManager(blockManager), network)
            /\ buildingManager' = NewBuildingManager
            /\ reply' = [type |-> "zones-cleared", success |-> TRUE]

\* the parcels are point polygons whose doubled centroids are integers
ExactParcels(bm) ==
  \A i \in 1 .. Len(bm.parcels) :
    /\ bm.parcels[i].vertices.kind = "points"
    /\ polygonCentroid2(bm.parcels[i].vertices.pts).exact

\* case 'generate-building-for-zone'; "level || 1"
OnGenerateBuildingForZone(msg) ==
  /\ last' = [op |-> "generate-building-for-zone", args |-> msg, result |-> NULL]
  /\ UNCHANGED <<handler, blockManager, rng>>
  /\ IF blockManager = NoManager \/ buildingManager = NoManager
       THEN /\ reply' = NoReply
            /\ UNCHANGED buildingManager
       ELSE
         /\ ExactParcels(blockManager)
         /\ LET targetParcel == LocateParcel(blockManager, msg.position)
                made == generateBuildingForParcel(buildingManager,
                          blockManager.parcels[targetParcel],
                          IF msg.level = 0 THEN 1 ELSE msg.level)
                mesh == getBuildingMeshForParcel(made.bg,
                          blockManager.parcels[targetParcel].id, 1)
            IN  IF targetParcel = 0
                  THEN /\ reply' = NoReply
                       /\ UNCHANGED buildingManager
                ELSE IF made.building = NoBuilding
                  THEN /\ reply' = NoReply
                       /\ buildingManager' = made.bg
                ELSE /\ buildingManager' = mesh.bg
                     /\ reply' = [type |-> "building-spawned", success |-> TRUE,
                                  zoneId |-> msg.zoneId,
                                  parcelId |-> blockManager.parcels[targetParcel].id,
                                  building |-> [id |-> made.building.id,
                                                parcelId |-> made.building.parcelId],
                                  meshData |-> mesh.meshData,
                                  lod |-> 1]

\* the zone messages of the exploration
ZoneMessages ==
  [type : {"paint-zone"}, polygon : ZonePolygons, zoneType : {"commercial"},
   zoneDensity : ZoneDensities, subdivisionMethod : ZoneMethods]

\* message msg, the n-th to arrive, has been served: what it posted (reply')
\* is in the outbox under its number
Logged(n, msg) ==
  /\ received' = Append(received, [number |-> n, msg |-> msg])
  /\ outbox' = IF reply' = NoReply THEN outbox
               ELSE Append(outbox, [request |-> n, reply |-> reply'])

\* every message is served as it arrives
Served(msg) == Logged(Len(received) + 1, msg) /\ UNCHANGED <<inbox, first>>

NextZone ==
  /\ Len(received) < MaxRequests
  /\ \/ \E seed \in Seeds :
          OnBoot(seed) /\ Served([type |-> "boot", seed |-> seed])
     \/ \E msg \in ZoneMessages : OnPaintZone(msg) /\ Served(msg)
     \/ OnClearZones /\ Served([type |-> "clear-zones"])
  /\ UNCHANGED network

SpecZone == InitAll /\ [][NextZone]_vars

\* the messages of the simulation's spawn and upgrade events
BuildMessages ==
  [type : {"generate-building-for-zone"}, zoneId : {7},
   position : BuildPositions, level : BuildLevels]

\* zones painted before buildings are asked for
BuildZones ==
  {msg \in ZoneMessages : msg.zoneDensity = "low" /\ msg.subdivisionMethod = Missing
                           /\ Len(msg.polygon) >= 3}

NextBuild ==
  /\ Len(received) < MaxRequests
  /\ \/ OnBoot(DefaultSeed) /\ Served([type |-> "boot", seed |-> DefaultSeed])
     \/ \E msg \in BuildZones : OnPaintZone(msg) /\ Served(msg)
     \/ \E msg \in BuildMessages : OnGenerateBuildingForZone(msg) /\ Served(msg)
     \/ OnClearZones /\ Served([type |-> "clear-zones"])
  /\ UNCHANGED network

SpecBuild == InitAll /\ [][NextBuild]_vars

(***************************************************************************)
(* The worker behind its message queue: the page posts messages, the event *)
(* loop hands them to self.onmessage one at a time, and the handler runs   *)
(* to its end (it is not async and awaits nothing) before the next one.    *)
(***************************************************************************)
\* the messages that have arrived so far
Arrivals == Len(received) + Len(inbox)

\* a loop that dispatches the newest message event first
DequeueNewest(queue) ==
  [entry |-> queue[Len(queue)], rest |-> SubSeq(queue, 1, Len(queue) - 1)]

\* the message event the loop dispatches next, and the queue left
Dequeue(queue) == [entry |-> Head(queue), rest |-> Tail(queue)]

MailMessages ==
  {[type |-> "boot", seed |-> DefaultSeed], [type |-> "clear-zones"]}
    \cup BuildZones \cup {msg \in BuildMessages : msg.level = 1}

\* worker.postMessage(msg) on the page
Post(msg) ==
  /\ Arrivals < MaxRequests
  /\ inbox' = Append(inbox, [number |-> Arrivals + 1, msg |-> msg])
  /\ UNCHANGED <<network, last, handler, reply, zoneVars, received, outbox, first>>

\* self.onmessage(e) for the next message event
Deliver ==
  /\ inbox # <<>>
  /\ LET next == Dequeue(inbox)
         msg == next.entry.msg
     IN  /\ \/ msg.type = "boot" /\ OnBoot(msg.seed)
            \/ msg.type = "paint-zone" /\ OnPaintZone(msg)
            \/ msg.type = "generate-building-for-zone"
                 /\ OnGenerateBuildingForZone(msg)
            \/ msg.type = "clear-zones" /\ OnClearZones
         /\ Logged(next.entry.number, msg)
         /\ inbox' = next.rest
  /\ UNCHANGED <<network, first>>

NextMail ==
  \/ \E msg \in MailMessages : Post(msg)
  \/ Deliver

SpecMail == InitAll /\ [][NextMail]_vars

(***************************************************************************)
(* A road inserted in two halves, then crossed where they meet             *)
(***************************************************************************)
\* the roads (p, q) that are split
SplitRoads == {<<<<0, 0>>, <<40, 0>>>>, <<<<40, 0>>, <<0, 0>>>>,
               <<<<0, 0>>, <<0, 40>>>>, <<<<0, 0>>, <<40, 40>>>>}

\* half the crossing segment: C runs from m - d to m + d
SplitDirections == {<<0, 20>>, <<20, 0>>, <<20, 20>>, <<20, -20>>,
                    <<0, -20>>, <<-20, -20>>}

\* the inputs: m is a quarter, the half or three quarters of the way from p
\* to q, and C is not parallel to (p, q)
SplitInputs ==
  {input \in
     {[p |-> road[1], q |-> road[2],
       m |-> <<road[1][1] + (k * (road[2][1] - road[1][1])) \div 4,
               road[1][2] + (k * (road[2][2] - road[1][2])) \div 4>>,
       d |-> d] : road \in SplitRoads, k \in 1 .. 3, d \in SplitDirections} :
     (input.q[1] - input.p[1]) * input.d[2] # (input.q[2] - input.p[2]) * input.d[1]}

CrossStart(input) == <<input.m[1] - input.d[1], input.m[2] - input.d[2]>>
CrossEnd(input) == <<input.m[1] + input.d[1], input.m[2] + input.d[2]>>

\* handler.addSegment(start, end, width, roadClass) for a street
AddStreet(h, start, end) ==
  addSegment(h, start, end, roadWidths(DefaultClass), classNum(DefaultClass)).h

\* a new handler and an input; the input stays in last.args
InitSplit ==
  /\ network = NewRoadNetwork
  /\ first = NoRun
  /\ \E input \in SplitInputs :
       last = [op |-> "new", args |-> input, result |-> NULL]
  /\ handler = NewIntersectionHandler
  /\ reply = NoReply
  /\ blockManager = NoManager
  /\ rng = mulberry32(DefaultSeed)
  /\ buildingManager = NoManager
  /\ inbox = <<>>
  /\ received = <<>>
  /\ outbox = <<>>

\* addSegment(p, m), addSegment(m, q) and addSegment of the crossing, in
\* this order
InsertFirstHalf ==
  /\ handler.nextSegmentId = 0
  /\ handler' = AddStreet(handler, last.args.p, last.args.m)
  /\ last' = [last EXCEPT !.op = "addSegment"]

InsertSecondHalf ==
  /\ handler.nextSegmentId = 1
  /\ handler' = AddStreet(handler, last.args.m, last.args.q)
  /\ last' = [last EXCEPT !.op = "addSegment"]

InsertCrossing ==
  /\ handler.nextSegmentId = 2
  /\ ExactInput(handler, CrossStart(last.args), CrossEnd(last.args))
  /\ handler' = AddStreet(handler, CrossStart(last.args), CrossEnd(last.args))
  /\ last' = [last EXCEPT !.op = "addSegment"]

NextSplit ==
  /\ \/ InsertFirstHalf
     \/ InsertSecondHalf
     \/ InsertCrossing
  /\ UNCHANGED <<network, reply, zoneVars, mailVars>>

SpecSplit == InitSplit /\ [][NextSplit]_vars

(***************************************************************************)
(* Two runs of the worker: the first serves any requests; then a new       *)
(* worker is started and is sent the requests of the first, in order.      *)
(***************************************************************************)
\* IntersectionHandler.getSegments / getIntersections
getSegments(h) == h.segments
getIntersections(h) == h.intersections

\* roads painted in the runs: the cross and a road along the first one's start
RunRoads == {<<<<0, 0>>, <<40, 0>>>>, <<<<20, -20>>, <<20, 20>>>>,
             <<<<0, 8>>, <<0, -1>>>>}

RunMessages ==
  [type : {"boot"}, seed : Seeds]
    \cup [type : {"paint-road"}, segment : RunRoads]
    \cup {msg \in ZoneMessages : Len(msg.polygon) = 4 /\ msg.polygon[1] = <<0, 0>>}

\* self.onmessage(e) for a message served as it arrives
OnMessage(msg) ==
  /\ \/ msg.type = "boot" /\ OnBoot(msg.seed)
     \/ msg.type = "paint-road"
          /\ OnPaintRoad(msg.segment[1], msg.segment[2], DefaultClass)
     \/ msg.type = "paint-zone" /\ OnPaintZone(msg)
  /\ Served(msg)
  /\ UNCHANGED network

\* the first run
FirstRun ==
  /\ first = NoRun
  /\ Len(received) < MaxRequests
  /\ \E msg \in RunMessages : OnMessage(msg)

\* the first worker is left as it is and a new one is started: the module
\* is loaded again ("let rng = mulberry32(1)", the managers null)
Restart ==
  /\ first = NoRun
  /\ first' = [received |-> received, outbox |-> outbox,
               booted |-> handler # NoHandler,
               segments |-> IF handler = NoHandler THEN <<>> ELSE getSegments(handler),
               intersections |-> IF handler = NoHandler THEN <<>>
                                 ELSE getIntersections(handler)]
  /\ last' = [op |-> "new", args |-> <<>>, result |-> NULL]
  /\ handler' = NoHandler
  /\ reply' = NoReply
  /\ blockManager' = NoManager
  /\ rng' = mulberry32(DefaultSeed)
  /\ buildingManager' = NoManager
  /\ inbox' = <<>>
  /\ received' = <<>>
  /\ outbox' = <<>>
  /\ UNCHANGED network

\* the second run is sent the next request of the first
SecondRun ==
  /\ first # NoRun
  /\ Len(received) < Len(first.received)
  /\ OnMessage(first.received[Len(received) + 1].msg)

NextRuns == FirstRun \/ Restart \/ SecondRun

SpecRuns == InitAll /\ [][NextRuns]_vars

\* requests that leave roadClass out: "roadClass = 'street'"
NextWelder ==
  /\ \/ OnBoot(DefaultSeed)
     \/ \E start \in WeldPoints, end \in WeldPoints :
          OnPaintRoad(start, end, DefaultClass)
  /\ UNCHANGED <<network, mailVars>>

\* the first two roads painted after boot, of either class
NextCross ==
  /\ \/ handler = NoHandler /\ OnBoot(DefaultSeed)
     \/ /\ handler # NoHandler
        /\ Len(handler.segments) <= 1
        /\ \E start \in WeldPoints, end \in WeldPoints, roadClass \in PaintClasses :
             OnPaintRoad(start, end, roadClass)
  /\ UNCHANGED <<network, mailVars>>

SpecCross == InitAll /\ [][NextCross]_vars

SpecWelder == InitAll /\ [][NextWelder]_vars

NextAdd ==
  /\ \/ \E p \in NetPoints : AddNode(p)
     \/ \E a \in NodeIds, b \in NodeIds : AddEdge(a, b)
  /\ UNCHANGED <<handler, reply, zoneVars, mailVars>>

NextNet ==
  /\ \/ \E p \in NetPoints : AddNode(p)
     \/ \E a \in NodeIds, b \in NodeIds : AddEdge(a, b)
     \/ \E e \in EdgeIds : RemoveEdge(e)
     \/ \E n \in NodeIds : RemoveNode(n)
     \/ \E s \in NetPoints, e \in NetPoints : PaintRoad(s, e)
  /\ UNCHANGED <<handler, reply, zoneVars, mailVars>>

SpecAdd == InitAll /\ [][NextAdd]_vars

(***************************************************************************)
(* The block finder applied to a cycle of roads                            *)
(***************************************************************************)
\* the orders in which the k edges of a cycle can be inserted
Orders(k) == {f \in [1 .. k -> 1 .. k] : \A i, j \in 1 .. k : f[i] = f[j] => i = j}

RECURSIVE AddCycleNodes(_, _, _)
\* addNode for the first k corners: node i - 1 is corner i
AddCycleNodes(net, k, i) ==
  IF i > k THEN net
  ELSE AddCycleNodes(addNode(net, CyclePoints[i][1], CyclePoints[i][2]).net, k, i + 1)

RECURSIVE AddCycleEdges(_, _, _, _, _)
\* addEdge for the k sides, side order[i] as the i-th call, from its second
\* node when flip[i]; ok tells that no call was rejected
AddCycleEdges(b, k, order, flip, i) ==
  IF i > k THEN b
  ELSE
    LET a == order[i] - 1
        c == order[i] % k
        r == IF flip[i] THEN addEdge(b.net, c, a) ELSE addEdge(b.net, a, c)
    IN  AddCycleEdges([net |-> r.net, ok |-> b.ok /\ r.result # NULL],
                      k, order, flip, i + 1)

BuildCycle(k, order, flip) ==
  AddCycleEdges([net |-> AddCycleNodes(NewRoadNetwork, k, 1), ok |-> TRUE],
                k, order, flip, 1)

InitBlocks ==
  /\ \E k \in 3 .. MaxCycle :
       \E order \in Orders(k), flip \in [1 .. k -> BOOLEAN] :
         /\ BuildCycle(k, order, flip).ok
         /\ network = BuildCycle(k, order, flip).net
  /\ last = [op |-> "new", args |-> <<>>, result |-> NULL]
  /\ first = NoRun
  /\ blockManager = NewCityBlockManager
  /\ handler = NoHandler
  /\ reply = NoReply
  /\ rng = mulberry32(DefaultSeed)
  /\ buildingManager = NoManager
  /\ inbox = <<>>
  /\ received = <<>>
  /\ outbox = <<>>

FindCityBlocks ==
  /\ blockManager' = findCityBlocks(blockManager, network)
  /\ last' = [op |-> "findCityBlocks", args |-> <<>>, result |-> NULL]
  /\ UNCHANGED <<network, handler, reply, rng, buildingManager, mailVars>>

NextBlocks == FindCityBlocks

SpecBlocks == InitBlocks /\ [][NextBlocks]_vars

SpecNet == InitAll /\ [][NextNet]_vars

(***************************************************************************)
(* Road graph: properties                                                  *)
(***************************************************************************)
Nodes == network.nodes
Edges == network.edges

Incident(e, n) == Edges[e].nodeA = n \/ Edges[e].nodeB = n
OtherEnd(e, n) == IF Edges[e].nodeA = n THEN Edges[e].nodeB ELSE Edges[e].nodeA
IsLoop(e) == Edges[e].nodeA = Edges[e].nodeB

\* the ids that occur in an incidence array
Listed(n) == {Nodes[n].edges[i] : i \in 1 .. Len(Nodes[n].edges)}

\* the existing nodes closer than SNAP_THRESHOLD to point p
Within(p) ==
  {n \in DOMAIN Nodes : Dist2(Nodes[n].pos, p) < SNAP_THRESHOLD * SNAP_THRESHOLD}

\* C1: after any sequence of addNode and addEdge calls, any two distinct
\* edges that meet at a node leave it in directions at least 30 degrees
\* apart (the check is made at both endpoints of a new edge).
C1_MinAngleAtEveryNode ==
  \A n \in DOMAIN Nodes : \A e1 \in DOMAIN Edges, e2 \in DOMAIN Edges :
    ( /\ e1 # e2
      /\ Incident(e1, n) /\ Incident(e2, n)
      /\ ~IsLoop(e1) /\ ~IsLoop(e2)
      /\ OtherEnd(e1, n) \in DOMAIN Nodes
      /\ OtherEnd(e2, n) \in DOMAIN Nodes )
    => ~angleDifferenceBelowMin(
          <<Nodes[OtherEnd(e1, n)].pos[1] - Nodes[n].pos[1],
            Nodes[OtherEnd(e1, n)].pos[2] - Nodes[n].pos[2]>>,
          <<Nodes[OtherEnd(e2, n)].pos[1] - Nodes[n].pos[1],
            Nodes[OtherEnd(e2, n)].pos[2] - Nodes[n].pos[2]>>)

\* C5: addEdge(a, a) returns the rejection value and no edge of the edge
\* table joins a node to itself.
C5_NoSelfLoop ==
  /\ \A e \in DOMAIN Edges : Edges[e].nodeA # Edges[e].nodeB
  /\ (last.op = "addEdge" /\ last.args[1] = last.args[2]) => last.result = NULL

\* C6: every edge is listed by its nodeA and its nodeB, both present, and
\* by no other node; every listed id is an existing edge with that node as
\* an endpoint.
C6_IncidenceConsistent ==
  /\ \A e \in DOMAIN Edges :
       /\ Edges[e].nodeA \in DOMAIN Nodes
       /\ Edges[e].nodeB \in DOMAIN Nodes
       /\ {n \in DOMAIN Nodes : e \in Listed(n)} = {Edges[e].nodeA, Edges[e].nodeB}
  /\ \A n \in DOMAIN Nodes : \A e \in Listed(n) :
       e \in DOMAIN Edges /\ Incident(e, n)

\* C7: no two distinct nodes of the node table are closer than
\* SNAP_THRESHOLD.
C7_NodesApart ==
  \A n \in DOMAIN Nodes, m \in DOMAIN Nodes :
    n # m => Dist2(Nodes[n].pos, Nodes[m].pos) >= SNAP_THRESHOLD * SNAP_THRESHOLD

\* addNode has just snapped a point to a node that lies in another grid
\* cell, while a second node exists
C7_Witness ==
  /\ last.op = "addNode"
  /\ last.result \in DOMAIN Nodes
  /\ getKey(Nodes[last.result].pos[1], Nodes[last.result].pos[2])
       # getKey(last.args[1], last.args[2])
  /\ Cardinality(DOMAIN Nodes) >= 2

\* C8: addNode(p) returns the nearest of the existing nodes within
\* SNAP_THRESHOLD of p and allocates nothing when there is one; otherwise it
\* allocates a node at p with an empty incidence list and indexes it.
C8_AddNodeNearest ==
  [][ (last'.op = "addNode" /\ <<network, last>>' # <<network, last>>) =>
        LET p == last'.args
            r == last'.result
        IN  IF Within(p) # {}
              THEN /\ network' = network
                   /\ r \in Within(p)
                   /\ \A m \in Within(p) :
                        Dist2(Nodes[r].pos, p) <= Dist2(Nodes[m].pos, p)
              ELSE /\ r = network.nextNodeId
                   /\ r \notin DOMAIN Nodes
                   /\ DOMAIN network'.nodes = DOMAIN Nodes \cup {r}
                   /\ network'.nodes[r].pos = p
                   /\ network'.nodes[r].edges = <<>>
                   /\ getKey(p[1], p[2]) \in DOMAIN network'.spatialIndex
                   /\ IndexOf(network'.spatialIndex[getKey(p[1], p[2])], r) # 0
    ]_vars

(***************************************************************************)
(* Welder: properties                                                      *)
(***************************************************************************)
Booted == handler # NoHandler

\* a paint-road request is being served by the welder in this step
Painting == Booted /\ last'.op = "paint-road" /\ handler' # handler

\* the end points of the stored segments
StoredEndpoints(h) ==
  {h.segments[i].start : i \in 1 .. Len(h.segments)}
    \cup {h.segments[i].end : i \in 1 .. Len(h.segments)}

\* the pieces of the segment painted under this id, in sub-id order
PiecesOf(h, id) ==
  SelectSeq(h.segments, LAMBDA g : g.id >= id /\ g.id < id + 1000)

\* the first road A (as stored) and the road B being painted over it
RoadA == handler.segments[1]
CrossX == lineIntersection(last'.args[1], last'.args[2], RoadA.start, RoadA.end)

\* B crosses A at a point more than INTERSECTION_THRESHOLD from the four ends
CrossingStep ==
  /\ Painting
  /\ Len(handler.segments) = 1
  /\ handler.nextSegmentId = 1
  /\ CrossX # NoPoint
  /\ Farther(CrossX, last'.args[1], INTERSECTION_THRESHOLD)
  /\ Farther(CrossX, last'.args[2], INTERSECTION_THRESHOLD)
  /\ Farther(CrossX, RoadA.start, INTERSECTION_THRESHOLD)
  /\ Farther(CrossX, RoadA.end, INTERSECTION_THRESHOLD)

WiderOf(w1, w2) == IF w1 > w2 THEN w1 ELSE w2

\* the record is the cross of A and B at X
IsCrossRecord(rec) ==
  /\ rec.position = CrossX
  /\ rec.type = "cross"
  /\ 4 * rec.radius = 3 * WiderOf(RoadA.width, roadWidths(last'.args[3]))

FourPiecesAtX ==
  /\ Len(handler'.segments) = 4
  /\ \A i \in 1 .. Len(handler'.segments) :
       handler'.segments[i].start = CrossX \/ handler'.segments[i].end = CrossX

\* C2 as stated: a road B painted across the only road A, crossing it at X
\* away from the four ends, leaves exactly 4 segments, each with an end at
\* X, and exactly one intersection record: the cross at X with radius
\* 0.75 x the larger width.
C2_CrossingWeldedOneRecord ==
  [][ CrossingStep =>
        /\ FourPiecesAtX
        /\ Len(handler'.intersections) = 1
        /\ IsCrossRecord(handler'.intersections[1])
    ]_vars

\* C2 amended: ... and exactly one intersection record at X, the cross with
\* radius 0.75 x the larger width; any other record is an 'end' record at
\* an end of B that lies within INTERSECTION_THRESHOLD of an end of A.
C2_CrossingWelded ==
  [][ CrossingStep =>
        /\ FourPiecesAtX
        /\ \E i \in 1 .. Len(handler'.intersections) :
             /\ IsCrossRecord(handler'.intersections[i])
             /\ \A j \in 1 .. Len(handler'.intersections) :
                  j # i =>
                    /\ handler'.intersections[j].type = "end"
                    /\ handler'.intersections[j].position
                         \in {last'.args[1], last'.args[2]}
                    /\ \/ Closer(handler'.intersections[j].position,
                                 RoadA.start, INTERSECTION_THRESHOLD)
                       \/ Closer(handler'.intersections[j].position,
                                 RoadA.end, INTERSECTION_THRESHOLD)
    ]_vars

\* an avenue and a street have been welded into a cross of radius 12
C2_Witness ==
  /\ Booted
  /\ Len(handler.segments) = 4
  /\ \E i \in 1 .. 4 : handler.segments[i].width = 12
  /\ \E i \in 1 .. 4 : handler.segments[i].width = 16
  /\ Len(handler.intersections) = 1
  /\ handler.intersections[1].type = "cross"
  /\ handler.intersections[1].radius = 12

\* C3: every segment id listed by an intersection record is in the segment
\* table and that segment has an end within INTERSECTION_THRESHOLD of the
\* record's position.
C3_RecordsTouchTheirSegments ==
  Booted =>
    \A i \in 1 .. Len(handler.intersections) :
      \A k \in 1 .. Len(handler.intersections[i].connectedSegments) :
        LET id == handler.intersections[i].connectedSegments[k]
            at == handler.intersections[i].position
        IN  \E j \in 1 .. Len(handler.segments) :
              /\ handler.segments[j].id = id
              /\ \/ Dist2(handler.segments[j].start, at)
                      <= INTERSECTION_THRESHOLD * INTERSECTION_THRESHOLD
                 \/ Dist2(handler.segments[j].end, at)
                      <= INTERSECTION_THRESHOLD * INTERSECTION_THRESHOLD

\* C4: a paint-road request identical to the one served just before (for a
\* road of positive length) leaves the segment table and the intersection
\* table as they were.
C4_RepaintChangesNothing ==
  [][ ( /\ Booted
        /\ last.op = "paint-road"
        /\ last'.op = "paint-road"
        /\ last'.args = last.args
        /\ last'.args[1] # last'.args[2] )
      => /\ handler'.segments = handler.segments
         /\ handler'.intersections = handler.intersections
    ]_vars

\* the end points of the request that have a stored end point within 15 m
NearStored(p) ==
  {q \in StoredEndpoints(handler) : Closer(p, q, SNAP_THRESHOLD)}

\* C9: an end of a painted segment that lies within 15 m of a stored end
\* point is stored on such an end point.
C9_PaintedEndsSnap ==
  [][ Painting =>
        LET pieces == PiecesOf(handler', last'.result)
        IN  /\ NearStored(last'.args[1]) # {}
                 => pieces[1].start \in NearStored(last'.args[1])
            /\ NearStored(last'.args[2]) # {}
                 => pieces[Len(pieces)].end \in NearStored(last'.args[2])
    ]_vars

\* C10: a paint-road request with start = end adds no segment.
C10_DegenerateAddsNothing ==
  [][ ( /\ Booted
        /\ last'.op = "paint-road"
        /\ last'.args[1] = last'.args[2] )
      => handler'.segments = handler.segments
    ]_vars

\* the new road start-end leaves a common end point with stored road g at
\* less than 30 degrees
MeetsAcutely(start, end, g) ==
  /\ start # end
  /\ g.start # g.end
  /\ \/ start = g.start /\ angleDifferenceBelowMin(angle(start, end), angle(g.start, g.end))
     \/ start = g.end /\ angleDifferenceBelowMin(angle(start, end), angle(g.end, g.start))
     \/ end = g.start /\ angleDifferenceBelowMin(angle(end, start), angle(g.start, g.end))
     \/ end = g.end /\ angleDifferenceBelowMin(angle(end, start), angle(g.end, g.start))

\* C11: a paint-road request whose segment would meet a stored road at a
\* common end point at less than 30 degrees is rejected: the reply reports
\* success = false and no segment is added.
C11_AcutePaintRejected ==
  [][ ( /\ Booted
        /\ last'.op = "paint-road"
        /\ \E i \in 1 .. Len(handler.segments) :
             MeetsAcutely(last'.args[1], last'.args[2], handler.segments[i]) )
      => /\ reply'.success = FALSE
         /\ handler'.segments = handler.segments
    ]_vars

\* the road graph has an edge between nodes at the two ends of segment g
InRoadGraph(net, g) ==
  \E e \in DOMAIN net.edges :
    /\ net.edges[e].nodeA \in DOMAIN net.nodes
    /\ net.edges[e].nodeB \in DOMAIN net.nodes
    /\ {net.nodes[net.edges[e].nodeA].pos, net.nodes[net.edges[e].nodeB].pos}
         = {g.start, g.end}

\* C12: after a paint-road request has been served, the block list is the
\* result of the block finder on a road graph that contains the painted
\* segments.
C12_BlocksFollowRoads ==
  [][ Painting =>
        /\ \A i \in 1 .. Len(handler'.segments) :
             InRoadGraph(network', handler'.segments[i])
        /\ blockManager'.blocks
             = findCityBlocks(blockManager', network').blocks
    ]_vars

(***************************************************************************)
(* Blocks: properties                                                      *)
(***************************************************************************)
\* the nodes of the network are those of one simple cycle: every node has
\* exactly two edges (the networks of InitBlocks are connected)
SingleCycle ==
  /\ Cardinality(DOMAIN Nodes) >= 3
  /\ Cardinality(DOMAIN Nodes) = Cardinality(DOMAIN Edges)
  /\ \A n \in DOMAIN Nodes : Len(Nodes[n].edges) = 2
  /\ \A e \in DOMAIN Edges : ~IsLoop(e)

CyclePositions == {Nodes[n].pos : n \in DOMAIN Nodes}

VertexSet(block) == {block.vertices[i] : i \in 1 .. Len(block.vertices)}

\* C13: for a road graph that is a single simple cycle of 3 to 12 nodes
\* enclosing an area between MIN_BLOCK_AREA and MAX_BLOCK_AREA,
\* findCityBlocks produces a block whose vertices are the positions of the
\* cycle's nodes, whatever the order of insertion of the edges.
C13_CycleBecomesBlock ==
  ( /\ last.op = "findCityBlocks"
    /\ SingleCycle
    /\ Cardinality(DOMAIN Nodes) <= 12 )
  => \E i \in 1 .. Len(blockManager.blocks) :
       /\ VertexSet(blockManager.blocks[i]) = CyclePositions
       /\ Len(blockManager.blocks[i].vertices) = Cardinality(DOMAIN Nodes)

(***************************************************************************)
(* Zones: properties                                                       *)
(***************************************************************************)
\* the manager exists (the worker has booted)
HasManager == blockManager # NoManager

\* Telling a cell from another polygon without the exact seeds.  In
\* fortieths of a metre, a seed of a two-seed grid lies in a box: its
\* coordinate is the low bound plus (2 col + 1) * 10 W, at most 3 W off
\* (the jitter is at most 0.15 of the cell width W / 2).
SeedBox(bounds, seed) ==
  LET W == bounds.maxX - bounds.minX
      H == bounds.maxY - bounds.minY
      cx == 40 * bounds.minX + (2 * seed.col + 1) * 10 * W
      cy == 40 * bounds.minY + (2 * seed.row + 1) * 10 * H
  IN  [xlo |-> cx - 3 * W, xhi |-> cx + 3 * W,
       ylo |-> cy - 3 * H, yhi |-> cy + 3 * H]

\* the least and the greatest product of a number of [a, b] by one of [c, d]
ProductRange(a, b, c, d) ==
  LET products == {a * c, a * d, b * c, b * d}
  IN  [lo |-> CHOOSE x \in products : \A y \in products : x <= y,
       hi |-> CHOOSE x \in products : \A y \in products : x >= y]

\* the range of currSide of clipByHalfPlane for point p when the cell of a
\* seed in box si is clipped against a seed in box sj:
\*   (p - midpoint) . (-dy, dx)  =  (p.y - si.y) * dx - (p.x - si.x) * dy
SideRange(si, sj, p) ==
  LET bdx == ProductRange(40 * p[2] - si.yhi, 40 * p[2] - si.ylo,
                          sj.xlo - si.xhi, sj.xhi - si.xlo)
      ady == ProductRange(40 * p[1] - si.xhi, 40 * p[1] - si.xlo,
                          sj.ylo - si.yhi, sj.yhi - si.ylo)
  IN  [lo |-> bdx.lo - ady.hi, hi |-> bdx.hi - ady.lo]

\* p is not on a side of the polygon pts
OffSides(pts, p) ==
  \A i \in 1 .. Len(pts) :
    LET a == pts[i]
        b == pts[(i % Len(pts)) + 1]
    IN  \/ (b[1] - a[1]) * (p[2] - a[2]) # (b[2] - a[2]) * (p[1] - a[1])
        \/ (p[1] - a[1]) * (p[1] - b[1]) > 0
        \/ (p[2] - a[2]) * (p[2] - b[2]) > 0

\* point p is certainly inside / certainly outside the parcel polygon
SurelyHolds(polygon, p) ==
  /\ OffSides(polygon.pts, p)
  /\ pointInPolygon(p, polygon.pts)
  /\ polygon.kind = "cell" =>
       /\ Len(polygon.seeds) = 2
       /\ SideRange(SeedBox(getPolygonBounds(polygon.pts), polygon.seeds[polygon.cell]),
                    SeedBox(getPolygonBounds(polygon.pts), polygon.seeds[3 - polygon.cell]),
                    p).lo > 0

SurelyMisses(polygon, p) ==
  /\ OffSides(polygon.pts, p)
  /\ \/ ~pointInPolygon(p, polygon.pts)
     \/ /\ polygon.kind = "cell"
        /\ Len(polygon.seeds) = 2
        /\ SideRange(SeedBox(getPolygonBounds(polygon.pts), polygon.seeds[polygon.cell]),
                     SeedBox(getPolygonBounds(polygon.pts), polygon.seeds[3 - polygon.cell]),
                     p).hi < 0

\* the points one metre inside the corners of the polygon's bounds
Probes(pts) ==
  LET b == getPolygonBounds(pts)
  IN  {<<b.minX + 1, b.minY + 1>>, <<b.maxX - 1, b.minY + 1>>,
       <<b.maxX - 1, b.maxY - 1>>, <<b.minX + 1, b.maxY - 1>>}

\* the two parcel polygons are certainly not the same polygon: two point
\* lists that differ, or a point that one holds and the other misses
Differ(a, b) ==
  \/ a.kind = "points" /\ b.kind = "points" /\ a.pts # b.pts
  \/ \E p \in Probes(a.pts) \cup Probes(b.pts) :
       \/ SurelyHolds(a, p) /\ SurelyMisses(b, p)
       \/ SurelyMisses(a, p) /\ SurelyHolds(b, p)

RECURSIVE TotalArea2(_, _)
\* twice the area of the first k parcels of a list of point polygons
TotalArea2(parcels, k) ==
  IF k = 0 THEN 0
  ELSE TotalArea2(parcels, k - 1) + polygonArea2(parcels[k].vertices.pts)

AllPoints(parcels) ==
  \A i \in 1 .. Len(parcels) : parcels[i].vertices.kind = "points"

\* this step serves a paint-zone message equal to the one served just before
\* it, and both were painted
RepeatedPaint ==
  /\ HasManager
  /\ reply.type = "zone-painted"
  /\ last.op = "paint-zone"
  /\ last'.op = "paint-zone"
  /\ last'.args = last.args
  /\ Len(received') = Len(received) + 1

\* C14: a paint-zone immediately followed by an identical paint-zone gives
\* parcel sets with the same count, the same total area and the same
\* polygon at each index
C14_RepaintSameParcels ==
  [][RepeatedPaint =>
       LET before == reply.affectedParcels
           after == reply'.affectedParcels
       IN  /\ Len(after) = Len(before)
           /\ (AllPoints(before) /\ AllPoints(after))
                => TotalArea2(after, Len(after)) = TotalArea2(before, Len(before))
           /\ \A i \in 1 .. Len(before) :
                i <= Len(after) => ~Differ(before[i].vertices, after[i].vertices)]_vars

\* C15: every block of the block list, found by findCityBlocks or made as a
\* virtual block by paintZone, has an area strictly between MIN_BLOCK_AREA
\* and MAX_BLOCK_AREA
C15_BlockAreaInRange ==
  HasManager =>
    \A b \in 1 .. Len(blockManager.blocks) :
      /\ blockManager.blocks[b].area2 > 2 * MIN_BLOCK_AREA
      /\ blockManager.blocks[b].area2 < 2 * MAX_BLOCK_AREA

(***************************************************************************)
(* Buildings: properties                                                   *)
(***************************************************************************)
\* this step serves a generate-building-for-zone request
Spawning == last'.op = "generate-building-for-zone" /\ Len(received') = Len(received) + 1

\* C16: the mesh of a building-spawned reply is the mesh of the building the
\* request generated: meshData.buildingId = building.id, for upgrades too
C16_MeshOfSpawnedBuilding ==
  [][(Spawning /\ reply'.type = "building-spawned")
       => reply'.meshData.buildingId = reply'.building.id]_vars

\* C17: a generate-building-for-zone request that finds no parcel within
\* 100 m of the position is answered by a reply without a mesh
C17_IndexMissAnswered ==
  [][(Spawning /\ HasManager /\ LocateParcel(blockManager, last'.args.position) = 0)
       => reply' # NoReply]_vars

(***************************************************************************)
(* Message queue: properties                                               *)
(***************************************************************************)
\* the reply was posted for a request that touched block id
Touches(entry, id) ==
  /\ entry.reply.type = "zone-painted"
  /\ entry.reply.success
  /\ \E b \in 1 .. Len(entry.reply.blocks) : entry.reply.blocks[b].id = id

Replayed == first # NoRun /\ Len(received) = Len(first.received)

WholeThenCrossing(input) ==
  AddStreet(AddStreet(NewIntersectionHandler, input.p, input.q),
            CrossStart(input), CrossEnd(input))

\* which end points are joined by a stored segment
Adjacency(h) ==
  {{h.segments[i].start, h.segments[i].end} : i \in 1 .. Len(h.segments)}

\* the two halves and the crossing have been inserted
HalvesCrossed == handler # NoHandler /\ handler.nextSegmentId = 3 /\ last.op = "addSegment"

\* C20: inserting the halves (p, m) and (m, q) and then a segment crossing
\* at m gives the same segment end points and the same adjacency between
\* them as inserting (p, q) and then the crossing
C20_HalvesLikeWhole ==
  HalvesCrossed =>
    /\ StoredEndpoints(handler) = StoredEndpoints(WholeThenCrossing(last.args))
    /\ Adjacency(handler) = Adjacency(WholeThenCrossing(last.args))

(***************************************************************************)
(* Road graph: duplicate edges and rejected insertions                     *)
(***************************************************************************)
\* the edges of the table that join nodes a and b, in either orientation
Joining(net, a, b) ==
  {e \in DOMAIN net.edges :
     \/ net.edges[e].nodeA = a /\ net.edges[e].nodeB = b
     \/ net.edges[e].nodeA = b /\ net.edges[e].nodeB = a}

\* C21: addEdge(a, b) for two nodes of the node table already joined by an
\* edge, in either orientation, returns the id of that edge and leaves the
\* graph unchanged; the edge table never holds two edges between the same
\* unordered pair of nodes.
C21_ExistingEdgeReturned ==
  [][ /\ \A a \in DOMAIN network'.nodes, b \in DOMAIN network'.nodes :
           Cardinality(Joining(network', a, b)) <= 1
      /\ ( /\ last'.op = "addEdge"
           /\ <<network, last>>' # <<network, last>>
           /\ last'.args[1] \in DOMAIN Nodes
           /\ last'.args[2] \in DOMAIN Nodes
           /\ Joining(network, last'.args[1], last'.args[2]) # {} )
         => /\ network' = network
            /\ last'.result \in Joining(network, last'.args[1], last'.args[2])
    ]_vars

\* addEdge(b, a) has just returned the edge that was stored as (a, b)
C21_Witness ==
  /\ last.op = "addEdge"
  /\ last.result \in DOMAIN Edges
  /\ last.args[1] # last.args[2]
  /\ Edges[last.result].nodeA = last.args[2]
  /\ Edges[last.result].nodeB = last.args[1]

\* C22: a rejected insertion changes nothing: when addEdge returns the
\* rejection value, and when paintRoad returns false, the node table, the
\* edge table, the incidence lists, the intersection flags and the spatial
\* index are what they were before the call.
C22_RejectionChangesNothing ==
  [][ ( \/ last'.op = "addEdge" /\ last'.result = NULL
        \/ last'.op = "paintRoad" /\ last'.result = 0 )
      => network' = network
    ]_vars

(***************************************************************************)
(* The heights of the massings: the inputs are drawn, then the massing is  *)
(* made.  rng is the shared generator, as a boot with the seed leaves it;  *)
(* last holds the parcel, the era and the level, then the heights.         *)
(***************************************************************************)
\* "if (zone.developed && zone.buildingLevel < 5)": levels run from 1 to 5
MaxBuildingLevel == 5

MassingEras == {"1890s", "1930s", "1950s"}

MassingParcels ==
  {[id |-> i, zoneType |-> t, zoneDensity |-> d] :
     i \in 0 .. 1, t \in {"residential", "commercial", "industrial"},
     d \in {"low", "medium", "high"}}

InitMassing ==
  /\ first = NoRun
  /\ network = NewRoadNetwork
  /\ handler = NoHandler
  /\ reply = NoReply
  /\ blockManager = NoManager
  /\ buildingManager = NoManager
  /\ inbox = <<>>
  /\ received = <<>>
  /\ outbox = <<>>
  /\ \E seed \in Seeds : rng = mulberry32(seed)
  /\ \E parcel \in MassingParcels, era \in MassingEras,
        level \in 1 .. MaxBuildingLevel :
       last = [op |-> "parcel", args |-> <<parcel, era, level>>, result |-> NULL]

GenerateMassing ==
  /\ last.op = "parcel"
  /\ \E made \in {massingHeights(last.args[1], last.args[2], last.args[3], rng)} :
       /\ last' = [op |-> "massing", args |-> last.args,
                   result |-> [height |-> made.height,
                               baseHeight |-> made.baseHeight,
                               bodyHeight |-> made.bodyHeight,
                               roofHeight |-> made.roofHeight]]
       /\ rng' = made.rng
  /\ UNCHANGED <<network, handler, reply, blockManager, buildingManager, mailVars>>

SpecMassing == InitMassing /\ [][GenerateMassing]_vars

\* x > 0
FPositive(x) == x.m # <<>> /\ ~x.neg

\* baseHeight + bodyHeight + roofHeight of the massing just made
HeightSum ==
  FAdd(FAdd(last.result.baseHeight, last.result.bodyHeight), last.result.roofHeight)

\* C23 as stated: for every massing, baseHeight + bodyHeight + roofHeight
\* equals the total height, and each of the three heights is above 0.
C23_HeightsSumToHeight ==
  last.op = "massing" =>
    /\ HeightSum = last.result.height
    /\ FPositive(last.result.baseHeight)
    /\ FPositive(last.result.bodyHeight)
    /\ FPositive(last.result.roofHeight)

\* C23 amended: for every massing, baseHeight + bodyHeight + roofHeight is
\* the total height or one of the two doubles next to it (the sum is off by
\* at most one unit in the last place of the height), and each of the three
\* heights is above 0.
C23_HeightsSumWithinRounding ==
  last.op = "massing" =>
    /\ \/ HeightSum = last.result.height
       \/ FSub(HeightSum, last.result.height).m # <<>>
          /\ ~FLess(FRound(FALSE, <<1>>, last.result.height.e),
                    [FSub(HeightSum, last.result.height) EXCEPT !.neg = FALSE])
    /\ FPositive(last.result.baseHeight)
    /\ FPositive(last.result.bodyHeight)
    /\ FPositive(last.result.roofHeight)

\* a massing whose three heights do not add up to its height exactly
C23_Witness ==
  /\ last.op = "massing"
  /\ HeightSum # last.result.height

\* the ids of the stored segments with an end within INTERSECTION_THRESHOLD
\* of the point
SegmentsAt(h, p) ==
  {h.segments[i].id : i \in {j \in 1 .. Len(h.segments) :
     \/ Closer(p, h.segments[j].start, INTERSECTION_THRESHOLD)
     \/ Closer(p, h.segments[j].end, INTERSECTION_THRESHOLD)}}

\* a record within INTERSECTION_THRESHOLD of the point lists exactly the
\* segments that end there
RecordedAt(h, p) ==
  \E i \in 1 .. Len(h.intersections) :
    /\ Closer(h.intersections[i].position, p, INTERSECTION_THRESHOLD)
    /\ {h.intersections[i].connectedSegments[k] :
          k \in 1 .. Len(h.intersections[i].connectedSegments)} = SegmentsAt(h, p)

\* C24: when addSegment returns, every end point of the pieces it stored (as
\* stored, after snapping) at which two or more stored segments end within
\* INTERSECTION_THRESHOLD has an intersection record within
\* INTERSECTION_THRESHOLD that lists exactly those segments.
C24_JunctionsRecorded ==
  [][ Painting =>
        LET pieces == PiecesOf(handler', last'.result)
        IN  \A k \in 1 .. Len(pieces) :
              \A p \in {pieces[k].start, pieces[k].end} :
                Cardinality(SegmentsAt(handler', p)) >= 2
                  => RecordedAt(handler', p)
    ]_vars

\* no stored segment starts where it ends
NoZeroLength(h) ==
  \A i \in 1 .. Len(h.segments) : h.segments[i].start # h.segments[i].end

\* C25: after addSegment(p, q) with p # q, on a table without zero-length
\* segments, the segment table holds no zero-length segment, the pieces made
\* at crossings and the snapped end points included.
C25_NoZeroLengthSegment ==
  [][ ( /\ Painting
        /\ last'.args[1] # last'.args[2]
        /\ NoZeroLength(handler) )
      => NoZeroLength(handler')
    ]_vars

(***************************************************************************)
(* Zone growth across the workers: the page hands every parcel of a        *)
(* zone-painted reply to the simulation as a zone, the simulation asks for *)
(* a building at the zone's position, and the page passes the request on   *)
(* as generate-building-for-zone.                                          *)
(***************************************************************************)
\* the zone the page makes of a parcel of a zone-painted reply ("add-zone"):
\* the id of the parcel and its centroid (the centroids are whole metres)
ZoneOfParcel(parcel) ==
  CHOOSE z \in {[id |-> parcel.id, position |-> <<c.x \div 2, c.y \div 2>>,
                 exact |-> c.exact /\ c.x % 2 = 0 /\ c.y % 2 = 0]
                  : c \in {polygonCentroid2(parcel.vertices.pts)}} : TRUE

\* the zones of the simulation (this.zones): one for every parcel of every
\* zone-painted reply posted so far, kept from then on
SimZones ==
  UNION {{ZoneOfParcel(outbox[i].reply.affectedParcels[j]) :
            j \in 1 .. Len(outbox[i].reply.affectedParcels)} :
         i \in {k \in 1 .. Len(outbox) :
                  outbox[k].reply.type = "zone-painted" /\ outbox[k].reply.success}}

\* sendGrowthEvent of a spawn or an upgrade of the zone, handed on by the
\* page: "level: msg.buildingLevel || 1", "position: msg.position"
GrowthMessage(zone, level) ==
  [type |-> "generate-building-for-zone", zoneId |-> zone.id,
   position |-> zone.position, level |-> level]

\* the simulation spawns or upgrades the building of one of its zones
OnGrowth ==
  \E zone \in SimZones, level \in BuildLevels :
    /\ zone.exact
    /\ OnGenerateBuildingForZone(GrowthMessage(zone, level))
    /\ Served(GrowthMessage(zone, level))

NextGrowth ==
  /\ Len(received) < MaxRequests
  /\ \/ OnBoot(DefaultSeed) /\ Served([type |-> "boot", seed |-> DefaultSeed])
     \/ \E msg \in BuildZones : OnPaintZone(msg) /\ Served(msg)
     \/ OnGrowth
  /\ UNCHANGED network

SpecGrowth == InitAll /\ [][NextGrowth]_vars

\* C26: whenever the worker answers a growth request of zone z with
\* building-spawned, the reply names parcel z: the building stands on the
\* parcel the zone was made from
C26_BuildingOnZoneParcel ==
  (reply.type = "building-spawned" /\ last.op = "generate-building-for-zone")
    => reply.parcelId = reply.zoneId

\* the parcel Map holds a parcel of this id
StoredParcel(bm, parcelId) ==
  \E i \in 1 .. Len(bm.parcels) : bm.parcels[i].id = parcelId

\* C27: every building of the building store stands on a parcel that is in
\* the parcel store
C27_BuildingsOnStoredParcels ==
  (blockManager # NoManager /\ buildingManager # NoManager)
    => \A b \in 1 .. Len(buildingManager.buildings) :
         StoredParcel(blockManager, buildingManager.buildings[b].parcelId)

(***************************************************************************)
(* The block manager by itself: findCityBlocks, paintZone and clear called *)
(* in any order on a manager over a fixed road graph                       *)
(***************************************************************************)
\* the road graphs of the manager: no road, and the cycles of 3 .. MaxCycle
\* corners inserted side by side
ManagerNetworks ==
  {NewRoadNetwork}
    \cup {BuildCycle(k, [i \in 1 .. k |-> i], [i \in 1 .. k |-> FALSE]).net :
            k \in 3 .. MaxCycle}

\* "new CityBlockManager(rng)"
InitManager ==
  /\ network \in ManagerNetworks
  /\ last = [op |-> "new", args |-> <<>>, result |-> NULL]
  /\ first = NoRun
  /\ blockManager = NewCityBlockManager
  /\ handler = NoHandler
  /\ reply = NoReply
  /\ rng = mulberry32(DefaultSeed)
  /\ buildingManager = NoManager
  /\ inbox = <<>>
  /\ received = <<>>
  /\ outbox = <<>>

\* the call is the next of the calls made so far
Called(call) ==
  /\ Len(received) < MaxRequests
  /\ received' = Append(received, [number |-> Len(received) + 1, msg |-> call])
  /\ UNCHANGED <<network, handler, reply, buildingManager, inbox, outbox, first>>

\* blockManager.findCityBlocks(network)
CallFindCityBlocks ==
  /\ blockManager' = findCityBlocks(blockManager, network)
  /\ last' = [op |-> "findCityBlocks", args |-> <<>>, result |-> NULL]
  /\ UNCHANGED rng
  /\ Called([type |-> "findCityBlocks"])

\* blockManager.paintZone(request, network)
CallPaintZone(msg) ==
  /\ \E r \in {paintZone(blockManager, ZoneRequest(msg), network, rng)} :
       /\ r.exact
       /\ blockManager' = r.bm
       /\ rng' = r.rng
       /\ last' = [op |-> "paintZone", args |-> msg, result |-> r.result]
  /\ Called(msg)

\* blockManager.clear()
CallClear ==
  /\ blockManager' = clearManager(blockManager)
  /\ last' = [op |-> "clear", args |-> <<>>, result |-> NULL]
  /\ UNCHANGED rng
  /\ Called([type |-> "clear"])

NextManager ==
  \/ CallFindCityBlocks
  \/ \E msg \in ZoneMessages : CallPaintZone(msg)
  \/ CallClear

SpecManager == InitManager /\ [][NextManager]_vars

\* the block list holds a block of this id whose parcel list has the parcel
BlockLists(bm, blockId, parcelId) ==
  \E b \in 1 .. Len(bm.blocks) :
    bm.blocks[b].id = blockId /\ IndexOf(bm.blocks[b].parcels, parcelId) # 0

\* parcels and blocks refer to each other
BlocksAndParcelsAgree(bm) ==
  /\ \A i \in 1 .. Len(bm.parcels) :
       BlockLists(bm, bm.parcels[i].blockId, bm.parcels[i].id)
  /\ \A b \in 1 .. Len(bm.blocks) :
       \A j \in 1 .. Len(bm.blocks[b].parcels) :
         StoredParcel(bm, bm.blocks[b].parcels[j])

\* C28: every stored parcel's blockId names a block of the block list that
\* lists the parcel, and every id a block lists is a stored parcel
C28_BlocksAndParcelsAgree ==
  blockManager # NoManager => BlocksAndParcelsAgree(blockManager)

\* C29: no two Intersection records of the welder are nearer to each other
\* than INTERSECTION_THRESHOLD (the distance at which createOrUpdateIntersection
\* takes a point for the place of a record)
C29_OneRecordPerJunction ==
  handler # NoHandler =>
    \A i, j \in 1 .. Len(handler.intersections) :
      i # j => ~Closer(handler.intersections[i].position,
                       handler.intersections[j].position, INTERSECTION_THRESHOLD)

\* a road was painted with an end next to, but not at, the record of a
\* junction of two or more segments
C29_Witness ==
  /\ handler # NoHandler
  /\ last.op = "paint-road"
  /\ \E i \in 1 .. Len(handler.intersections), k \in 1 .. 2 :
       /\ last.args[k] # handler.intersections[i].position
       /\ Closer(last.args[k], handler.intersections[i].position,
                 INTERSECTION_THRESHOLD)
       /\ Len(handler.intersections[i].connectedSegments) >= 2

(***************************************************************************)
(* findCityBlocks turn by turn: the for loop over the adjacency Map and    *)
(* the while loop over the stack, one action per turn.  The call in hand   *)
(* is last = [op |-> "findCityBlocks", args |-> adjacency, result |-> w],  *)
(* w = [phase, i, stack, path, visited, cycles, placed]; i is the place of *)
(* the for loop in the keys of the Map and placed[n] tells how often node  *)
(* n has been pushed on the path (2 stands for twice or more).             *)
(***************************************************************************)
\* the corners the road graphs of the walk are made of
WalkNodes == 0 .. 3

\* the addEdge calls that can make a graph: any two corners, a corner with
\* itself included
WalkCalls == WalkNodes \X WalkNodes

RECURSIVE AddWalkEdges(_, _, _)
\* addEdge for calls i .. Len(calls); ok tells that every call made an edge
AddWalkEdges(b, calls, i) ==
  IF i > Len(calls) THEN b
  ELSE CHOOSE next \in
         {AddWalkEdges([net |-> r.net,
                        ok |-> b.ok /\ r.result # NULL
                                 /\ r.net.nextEdgeId > b.net.nextEdgeId],
                       calls, i + 1)
            : r \in {addEdge(b.net, calls[i][1], calls[i][2])}} : TRUE

\* addNode for the corners, then the addEdge calls
BuildWalkGraph(calls) ==
  AddWalkEdges([net |-> AddCycleNodes(NewRoadNetwork, Cardinality(WalkNodes), 1),
                ok |-> TRUE], calls, 1)

\* the loops before their first turn
NewWalk ==
  [phase |-> "for", i |-> 1, stack |-> <<>>, path |-> <<>>, visited |-> {},
   cycles |-> <<>>, placed |-> [n \in WalkNodes |-> 0]]

InitWalk ==
  /\ \E m \in 0 .. MaxWalkEdges :
       \E calls \in [1 .. m -> WalkCalls] :
         \E built \in {BuildWalkGraph(calls)} :
           built.ok /\ network = built.net
  /\ last = [op |-> "new", args |-> [keys |-> <<>>, nbrs |-> EmptyMap],
             result |-> NewWalk]
  /\ first = NoRun
  /\ blockManager = NewCityBlockManager
  /\ handler = NoHandler
  /\ reply = NoReply
  /\ rng = mulberry32(DefaultSeed)
  /\ buildingManager = NoManager
  /\ inbox = <<>>
  /\ received = <<>>
  /\ outbox = <<>>

\* the body of "while (stack.length > 0)" without the closing test of the
\* cycle count; d has the fields stack, path, visited and cycles, pathSet is
\* the set of the elements of path
WalkTurn(adj, d) ==
  LET current == Top(d.stack)
  IN  IF IndexOf(d.path, current) # 0
        THEN
          LET cycle == SubSeq(d.path, IndexOf(d.path, current), Len(d.path))
          IN  [d EXCEPT !.cycles = IF Len(cycle) >= 3 /\ Len(cycle) <= 12
                                     THEN Append(@, cycle) ELSE @,
                        !.stack = Pop(@),
                        !.path = IF Top(@) = current THEN Pop(@) ELSE @]
        ELSE
          LET visited   == d.visited \cup {current}
              path      == Append(d.path, current)
              neighbors == IF AdjHas(adj, current) THEN adj.nbrs[current]
                           ELSE <<>>
              Open(i)   == \/ neighbors[i] \notin visited
                           \/ IndexOf(path, neighbors[i]) # 0
          IN  IF \E i \in 1 .. Len(neighbors) : Open(i)
                THEN [d EXCEPT
                        !.visited = visited,
                        !.path = path,
                        !.stack = Append(@,
                           neighbors[CHOOSE i \in 1 .. Len(neighbors) :
                              Open(i) /\ \A j \in 1 .. (i - 1) : ~Open(j)])]
                ELSE [d EXCEPT !.visited = visited, !.stack = Pop(@)]

\* a call of findCityBlocks is in hand
Walking == last.op = "findCityBlocks"

\* the rest of the state while the loops run
WalkFrame ==
  UNCHANGED <<network, handler, reply, rng, buildingManager, mailVars>>

\* "this.blocks.clear()" and the adjacency Map
WalkBegin ==
  /\ last.op = "new"
  /\ blockManager' = [blockManager EXCEPT !.blocks = <<>>]
  /\ \E ids \in {MapKeys(network.edges)} :
       \E adjacency \in {BuildAdjacency(network.edges, ids, Len(ids))} :
         last' = [op |-> "findCityBlocks", args |-> adjacency,
                  result |-> NewWalk]
  /\ WalkFrame

\* "for (const [nodeId, neighbors] of adjacency)": the next key, passed over
\* when visited, else the start of a stack
WalkFor ==
  /\ Walking
  /\ last.result.phase = "for"
  /\ last.result.i <= Len(last.args.keys)
  /\ last' = [last EXCEPT !.result =
       IF last.args.keys[last.result.i] \in last.result.visited
         THEN [@ EXCEPT !.i = @ + 1]
         ELSE [@ EXCEPT !.phase = "while",
                        !.stack = <<last.args.keys[last.result.i]>>,
                        !.path = <<>>]]
  /\ UNCHANGED blockManager
  /\ WalkFrame

\* one turn of the while loop, "if (cycles.length > 500) break" and the test
\* of the loop for the next turn
WalkWhile ==
  /\ Walking
  /\ last.result.phase = "while"
  /\ \E d \in {WalkTurn(last.args, last.result)} :
       last' = [last EXCEPT !.result =
         [d EXCEPT
            !.placed = IF Len(d.path) > Len(last.result.path)
                         THEN [@ EXCEPT ![Top(d.path)] = IF @ = 0 THEN 1 ELSE 2]
                         ELSE @,
            !.phase = IF Len(d.cycles) > 500 \/ Len(d.stack) = 0
                        THEN "for" ELSE "while",
            !.i = IF Len(d.cycles) > 500 \/ Len(d.stack) = 0 THEN @ + 1 ELSE @]]
  /\ UNCHANGED blockManager
  /\ WalkFrame

\* "for (const cycle of cycles)": the cycles become blocks and the call ends
WalkBlocks ==
  /\ Walking
  /\ last.result.phase = "for"
  /\ last.result.i > Len(last.args.keys)
  /\ blockManager' = BlocksOf(blockManager, network, last.result.cycles, 1)
  /\ last' = [last EXCEPT !.result.phase = "done"]
  /\ WalkFrame

NextWalk == WalkBegin \/ WalkFor \/ WalkWhile \/ WalkBlocks

\* the loops are run to their end when they have one
SpecWalk == InitWalk /\ [][NextWalk]_vars /\ WF_vars(NextWalk)

\* the call has returned
WalkDone == Walking /\ last.result.phase = "done"

\* no node has been pushed on the path twice, and the candidate cycles are
\* 501 at most
WalkWithinLimits ==
  Walking =>
    /\ \A n \in WalkNodes : last.result.placed[n] <= 1
    /\ Len(last.result.cycles) <= 501

\* C30: findCityBlocks returns on every road graph; until then no node is
\* placed on the path a second time and no more than 501 cycles are kept
C30_FindCityBlocksTerminates ==
  []WalkWithinLimits /\ <>WalkDone

====
